---- MODULE Spec2Model ----
(***************************************************************************)
(* Connection authentication of the server (server/auth.go).               *)
(*                                                                         *)
(* Go pointers, maps and slices that may be nil are modelled as sets of at *)
(* most one element: Nil is the nil pointer, Some(x) a pointer to x.       *)
(* Go's empty string is "".                                                *)
(***************************************************************************)
EXTENDS Integers, Sequences, FiniteSets, TLC

Nil == {}
Some(x) == {x}
Val(p) == CHOOSE x \in p : TRUE

\* c.kind
CLIENT == "CLIENT"
ROUTER == "ROUTER"
GATEWAY == "GATEWAY"
LEAF == "LEAF"

-----------------------------------------------------------------------------
(* Password primitives.                                                    *)

\* bcrypt.GenerateFromPassword: the hash string of a clear password.
BcryptOf(p) == "$2a$10$H(" \o p \o ")"

\* The secrets of the model: clear ones, one that starts with "$" without
\* being a bcrypt hash, and the bcrypt hashes of the clear ones.
ClearSecrets == {"", "s3cret", "wrong", "tok", "$plain"}
Secrets == ClearSecrets \cup {BcryptOf(p) : p \in ClearSecrets}

\* strings.HasPrefix(password, "$")
HasDollarPrefix(s) == s = "$plain" \/ \E p \in Secrets : s = BcryptOf(p)

\* validBcryptPrefix.MatchString: ^\$2[a,b,x,y]{1}\$\d{2}\$.*
MatchesBcryptPrefix(s) == \E p \in Secrets : s = BcryptOf(p)

isBcrypt(password) ==
    IF HasDollarPrefix(password) THEN MatchesBcryptPrefix(password) ELSE FALSE

\* bcrypt.CompareHashAndPassword(hash, password) = nil
BcryptMatches(hash, password) == hash = BcryptOf(password)

\* comparePasswords without the bcrypt branch
comparePasswordsNoBcrypt(serverPassword, clientPassword) ==
    serverPassword = clientPassword

comparePasswords(serverPassword, clientPassword) ==
    IF isBcrypt(serverPassword)
    THEN BcryptMatches(serverPassword, clientPassword)
    ELSE serverPassword = clientPassword

-----------------------------------------------------------------------------
(* Permissions.                                                            *)

DEFAULT_ALLOW_RESPONSE_MAX_MSGS == 1
DEFAULT_ALLOW_RESPONSE_EXPIRATION == 120

\* (p *SubjectPermission) clone
SubjectPermissionClone(p) ==
    IF p = Nil THEN Nil
    ELSE Some([Allow |-> IF Val(p).Allow # Nil THEN Some(Val(Val(p).Allow)) ELSE Nil,
               Deny  |-> IF Val(p).Deny # Nil THEN Some(Val(Val(p).Deny)) ELSE Nil])

\* (p *Permissions) clone
PermissionsClone(p) ==
    IF p = Nil THEN Nil
    ELSE Some([Publish   |-> IF Val(p).Publish # Nil
                             THEN SubjectPermissionClone(Val(p).Publish) ELSE Nil,
               Subscribe |-> IF Val(p).Subscribe # Nil
                             THEN SubjectPermissionClone(Val(p).Subscribe) ELSE Nil,
               Response  |-> IF Val(p).Response # Nil
                             THEN Some([MaxMsgs |-> Val(Val(p).Response).MaxMsgs,
                                        Expires |-> Val(Val(p).Response).Expires])
                             ELSE Nil])

\* validateResponsePermissions, as the value of *p after the call
validateResponsePermissions(p) ==
    IF p = Nil \/ Val(p).Response = Nil THEN p
    ELSE Some([Val(p) EXCEPT
           !.Publish =
               IF @ = Nil THEN Some([Allow |-> Some(<< >>), Deny |-> Nil])
               ELSE IF Val(@).Allow = Nil THEN Some([Val(@) EXCEPT !.Allow = Some(<< >>)])
               ELSE @,
           !.Response =
               Some([MaxMsgs |-> IF Val(@).MaxMsgs = 0
                                 THEN DEFAULT_ALLOW_RESPONSE_MAX_MSGS ELSE Val(@).MaxMsgs,
                     Expires |-> IF Val(@).Expires = 0
                                 THEN DEFAULT_ALLOW_RESPONSE_EXPIRATION ELSE Val(@).Expires])])

\* (u *User) clone
UserClone(u) == [u EXCEPT !.Permissions = PermissionsClone(u.Permissions)]

\* (n *NkeyUser) clone
NkeyUserClone(n) == [n EXCEPT !.Permissions = PermissionsClone(n.Permissions)]

-----------------------------------------------------------------------------
(* Permissions as objects in memory.                                       *)
(* A memory is [perms, subjs, arrs, resps]: the Permissions structs, the   *)
(* SubjectPermission structs, the backing arrays of []string slices and    *)
(* the ResponsePermission structs allocated so far, each a sequence        *)
(* indexed by address. A pointer is an address, 0 the nil pointer; a slice *)
(* is the address of its backing array, 0 the nil slice. An operation that *)
(* allocates yields [m, a]: the memory after it and the address it returns.*)

NoObjects == [perms |-> << >>, subjs |-> << >>, arrs |-> << >>, resps |-> << >>]

\* the []string at slice s, the *SubjectPermission and the *Permissions at
\* pointer p, read out of memory m as values
SliceAt(m, s) == IF s = 0 THEN Nil ELSE Some(m.arrs[s])

SubjectPermissionAt(m, p) ==
    IF p = 0 THEN Nil
    ELSE Some([Allow |-> SliceAt(m, m.subjs[p].Allow), Deny |-> SliceAt(m, m.subjs[p].Deny)])

PermissionsAt(m, p) ==
    IF p = 0 THEN Nil
    ELSE Some([Publish   |-> SubjectPermissionAt(m, m.perms[p].Publish),
               Subscribe |-> SubjectPermissionAt(m, m.perms[p].Subscribe),
               Response  |-> IF m.perms[p].Response = 0 THEN Nil
                             ELSE Some(m.resps[m.perms[p].Response])])

\* a slice literal, &SubjectPermission{...} and &Permissions{...} holding
\* the values v: the objects an options object is made of
NewSlice(m, v) ==
    IF v = Nil THEN [m |-> m, a |-> 0]
    ELSE [m |-> [m EXCEPT !.arrs = Append(@, Val(v))], a |-> Len(m.arrs) + 1]

NewSubjectPermission(m, v) ==
    IF v = Nil THEN [m |-> m, a |-> 0]
    ELSE LET r1 == NewSlice(m, Val(v).Allow)
             r2 == NewSlice(r1.m, Val(v).Deny)
         IN  [m |-> [r2.m EXCEPT !.subjs = Append(@, [Allow |-> r1.a, Deny |-> r2.a])],
              a |-> Len(m.subjs) + 1]

NewPermissions(m, v) ==
    IF v = Nil THEN [m |-> m, a |-> 0]
    ELSE LET r1 == NewSubjectPermission(m, Val(v).Publish)
             r2 == NewSubjectPermission(r1.m, Val(v).Subscribe)
             r3 == IF Val(v).Response = Nil THEN [m |-> r2.m, a |-> 0]
                   ELSE [m |-> [r2.m EXCEPT !.resps = Append(@, Val(Val(v).Response))],
                         a |-> Len(m.resps) + 1]
         IN  [m |-> [r3.m EXCEPT !.perms = Append(@, [Publish |-> r1.a, Subscribe |-> r2.a,
                                                      Response |-> r3.a])],
              a |-> Len(m.perms) + 1]

\* make([]string, len(s)) and copy(clone, s), for a slice s that is not nil
MakeAndCopy(m, s) ==
    IF s = 0 THEN [m |-> m, a |-> 0]
    ELSE [m |-> [m EXCEPT !.arrs = Append(@, m.arrs[s])], a |-> Len(m.arrs) + 1]

\* (p *SubjectPermission) clone, in memory
SubjectPermissionCloneAt(m, p) ==
    IF p = 0 THEN [m |-> m, a |-> 0]
    ELSE LET r1 == MakeAndCopy(m, m.subjs[p].Allow)
             r2 == MakeAndCopy(r1.m, m.subjs[p].Deny)
         IN  [m |-> [r2.m EXCEPT !.subjs = Append(@, [Allow |-> r1.a, Deny |-> r2.a])],
              a |-> Len(m.subjs) + 1]

\* a clone that copies the struct and with it the pointers it holds
PermissionsCloneShallow(m, p) ==
    IF p = 0 THEN [m |-> m, a |-> 0]
    ELSE [m |-> [m EXCEPT !.perms = Append(@, m.perms[p])], a |-> Len(m.perms) + 1]

\* (p *Permissions) clone, in memory
PermissionsCloneAt(m, p) ==
    IF p = 0 THEN [m |-> m, a |-> 0]
    ELSE LET r1 == SubjectPermissionCloneAt(m, m.perms[p].Publish)
             r2 == SubjectPermissionCloneAt(r1.m, m.perms[p].Subscribe)
             r3 == IF m.perms[p].Response = 0 THEN [m |-> r2.m, a |-> 0]
                   ELSE [m |-> [r2.m EXCEPT !.resps = Append(@, m.resps[m.perms[p].Response])],
                         a |-> Len(m.resps) + 1]
         IN  [m |-> [r3.m EXCEPT !.perms = Append(@, [Publish |-> r1.a, Subscribe |-> r2.a,
                                                      Response |-> r3.a])],
              a |-> Len(m.perms) + 1]

\* validateResponsePermissions assigning the empty allow list whether or
\* not one was set
validateResponsePermissionsResettingAllow(m, p) ==
    IF p = 0 THEN m
    ELSE IF m.perms[p].Response = 0 THEN m
    ELSE LET m1 == IF m.perms[p].Publish = 0
                   THEN [m EXCEPT !.subjs = Append(@, [Allow |-> 0, Deny |-> 0]),
                                  !.perms[p].Publish = Len(m.subjs) + 1]
                   ELSE m
         IN  [m1 EXCEPT
                !.arrs = Append(@, << >>),
                !.subjs[m1.perms[p].Publish].Allow = Len(m1.arrs) + 1,
                !.resps[m.perms[p].Response].MaxMsgs =
                    IF @ = 0 THEN DEFAULT_ALLOW_RESPONSE_MAX_MSGS ELSE @,
                !.resps[m.perms[p].Response].Expires =
                    IF @ = 0 THEN DEFAULT_ALLOW_RESPONSE_EXPIRATION ELSE @]

\* validateResponsePermissions(p) on the object at p: the memory after it
validateResponsePermissionsAt(m, p) ==
    IF p = 0 THEN m
    ELSE IF m.perms[p].Response = 0 THEN m
    ELSE LET m1 == IF m.perms[p].Publish = 0
                   THEN [m EXCEPT !.subjs = Append(@, [Allow |-> 0, Deny |-> 0]),
                                  !.perms[p].Publish = Len(m.subjs) + 1]
                   ELSE m
             m2 == IF m1.subjs[m1.perms[p].Publish].Allow = 0
                   THEN [m1 EXCEPT !.arrs = Append(@, << >>),
                                   !.subjs[m1.perms[p].Publish].Allow = Len(m1.arrs) + 1]
                   ELSE m1
         IN  [m2 EXCEPT
                !.resps[m.perms[p].Response].MaxMsgs =
                    IF @ = 0 THEN DEFAULT_ALLOW_RESPONSE_MAX_MSGS ELSE @,
                !.resps[m.perms[p].Response].Expires =
                    IF @ = 0 THEN DEFAULT_ALLOW_RESPONSE_EXPIRATION ELSE @]

\* an assignment through the pointer p, by the owner of the object: w names
\* the field or element assigned
WriteThrough(m, p, w) ==
    IF p = 0 THEN m
    ELSE LET pub == m.perms[p].Publish
             sub == m.perms[p].Subscribe
             rsp == m.perms[p].Response
         IN  IF w = "Publish.Allow[0]" /\ pub # 0 /\ m.subjs[pub].Allow # 0
                /\ Len(m.arrs[m.subjs[pub].Allow]) > 0
             THEN [m EXCEPT !.arrs[m.subjs[pub].Allow][1] = "changed"]
             ELSE IF w = "Publish.Deny[0]" /\ pub # 0 /\ m.subjs[pub].Deny # 0
                     /\ Len(m.arrs[m.subjs[pub].Deny]) > 0
             THEN [m EXCEPT !.arrs[m.subjs[pub].Deny][1] = "changed"]
             ELSE IF w = "Publish.Deny" /\ pub # 0
             THEN [m EXCEPT !.subjs[pub].Deny = 0]
             ELSE IF w = "Subscribe.Allow[0]" /\ sub # 0 /\ m.subjs[sub].Allow # 0
                     /\ Len(m.arrs[m.subjs[sub].Allow]) > 0
             THEN [m EXCEPT !.arrs[m.subjs[sub].Allow][1] = "changed"]
             ELSE IF w = "Response.MaxMsgs" /\ rsp # 0
             THEN [m EXCEPT !.resps[rsp].MaxMsgs = 9]
             ELSE IF w = "Response.Expires" /\ rsp # 0
             THEN [m EXCEPT !.resps[rsp].Expires = 9]
             ELSE m

Writes == {"Publish.Allow[0]", "Publish.Deny[0]", "Publish.Deny", "Subscribe.Allow[0]",
           "Response.MaxMsgs", "Response.Expires"}

-----------------------------------------------------------------------------
(* Accounts and the account registry (s.accounts, a sync.Map by name).     *)
(* An account is [Name, Issuer, expired, signingKeys, revoked, claimOK,    *)
(* origin]: origin tells the registry's object from one an options object  *)
(* declares and from one a connection built.                               *)

GlobalAccountName == "$G"

Account(name, issuer, expired, signingKeys, revoked, claimOK, origin) ==
    [Name |-> name, Issuer |-> issuer, expired |-> expired,
     signingKeys |-> signingKeys, revoked |-> revoked, claimOK |-> claimOK,
     origin |-> origin]

\* s.gacc
gacc == Account(GlobalAccountName, "", FALSE, {}, {}, TRUE, "registry")

\* s.accounts.Load(name): a pointer to the registered account, or nil
accountsLoad(accounts, name) == {a \in accounts : a.Name = name}

-----------------------------------------------------------------------------
(* The users and nkeys tables.                                             *)
(* A User is [Username, Password, Permissions, Account], an NkeyUser is    *)
(* [Nkey, Permissions, Account, SigningKey]; Permissions and Account are   *)
(* pointers. A table is a pointer to a function from keys to entries.      *)

\* len of a slice that may be nil
SliceLen(sl) == IF sl = Nil THEN 0 ELSE Len(Val(sl))

LastIndex(S) == CHOOSE i \in S : \A j \in S : j <= i

\* an entry left as it is, without account
assignGlobalAccountNever(u) == u

\* assignGlobalAccountToOrphanUsers, for one entry
assignGlobalAccount(u) ==
    IF u.Account = Nil THEN [u EXCEPT !.Account = Some(gacc)] ELSE u

\* The body of the loops of buildNkeysAndUsersFromOptions: the table's copy
\* of the options entry u.
BuildEntry(u, copy, accounts) ==
    [copy EXCEPT
       !.Account = IF u.Account # Nil /\ accountsLoad(accounts, Val(u.Account).Name) # Nil
                   THEN accountsLoad(accounts, Val(u.Account).Name) ELSE @,
       !.Permissions = IF @ # Nil THEN validateResponsePermissions(@) ELSE @]

\* the nkeys map of buildNkeysAndUsersFromOptions, from the slice ns
BuildNkeys(ns, accounts) ==
    [k \in {ns[i].Nkey : i \in 1..Len(ns)} |->
        assignGlobalAccount(
            BuildEntry(ns[LastIndex({i \in 1..Len(ns) : ns[i].Nkey = k})],
                       NkeyUserClone(ns[LastIndex({i \in 1..Len(ns) : ns[i].Nkey = k})]),
                       accounts))]

\* the users map of buildNkeysAndUsersFromOptions, from the slice us
BuildUsers(us, accounts) ==
    [k \in {us[i].Username : i \in 1..Len(us)} |->
        assignGlobalAccount(
            BuildEntry(us[LastIndex({i \in 1..Len(us) : us[i].Username = k})],
                       UserClone(us[LastIndex({i \in 1..Len(us) : us[i].Username = k})]),
                       accounts))]

\* buildNkeysAndUsersFromOptions: [nkeys, users], with the global account
\* assigned to the entries that have none. On duplicate keys the last wins.
buildNkeysAndUsersFromOptions(nko, uo, accounts) ==
    [nkeys |-> IF SliceLen(nko) > 0 THEN Some(BuildNkeys(Val(nko), accounts)) ELSE Nil,
     users |-> IF SliceLen(uo) > 0 THEN Some(BuildUsers(Val(uo), accounts)) ELSE Nil]

\* wsConfigAuth: the websocket tables and auth requirement, built from the
\* Websocket section with the same discipline as the server's own.
wsConfigAuth(wo, accounts) ==
    IF wo.Nkeys # Nil \/ wo.Users # Nil
    THEN buildNkeysAndUsersFromOptions(wo.Nkeys, wo.Users, accounts)
            @@ [authRequired |-> TRUE]
    ELSE IF wo.Username # "" \/ wo.Token # ""
    THEN [authRequired |-> TRUE, users |-> Nil, nkeys |-> Nil]
    ELSE [authRequired |-> FALSE, users |-> Nil, nkeys |-> Nil]

\* the branches of configureAuthorization, t the tables built from o
ConfiguredTables(o, tk, oldUsers, oldNkeys, t) ==
    IF o.CustomClientAuthentication # Nil
    THEN [users |-> oldUsers, nkeys |-> oldNkeys, AuthRequired |-> TRUE]
    ELSE IF SliceLen(tk) > 0
    THEN [users |-> oldUsers, nkeys |-> oldNkeys, AuthRequired |-> TRUE]
    ELSE IF o.Nkeys # Nil \/ o.Users # Nil
    THEN [users |-> t.users, nkeys |-> t.nkeys, AuthRequired |-> TRUE]
    ELSE IF o.Username # "" \/ o.Authorization # ""
    THEN [users |-> oldUsers, nkeys |-> oldNkeys, AuthRequired |-> TRUE]
    ELSE [users |-> Nil, nkeys |-> Nil, AuthRequired |-> FALSE]

\* configureAuthorization: the server's [users, nkeys, AuthRequired, websocket]
\* after the call, given the tables it had before.
configureAuthorization(o, tk, oldUsers, oldNkeys, accounts) ==
    ConfiguredTables(o, tk, oldUsers, oldNkeys,
                     buildNkeysAndUsersFromOptions(o.Nkeys, o.Users, accounts))
        @@ [websocket |-> wsConfigAuth(o.Websocket, accounts)]

-----------------------------------------------------------------------------
(* Credential selector.                                                    *)

\* var auth authOpts
ZeroAuthOpts ==
    [username |-> "", password |-> "", token |-> "", noAuthUser |-> "",
     tlsMap |-> FALSE, users |-> Nil, nkeys |-> Nil]

\* getAuthOpts taking the websocket tables but the top-level static
\* username, password and token
getAuthOptsMixed(wsClient, o, srv) ==
    IF ~(IF ~srv.AuthRequired /\ wsClient THEN srv.websocket.authRequired
         ELSE srv.AuthRequired)
    THEN [required |-> FALSE, auth |-> ZeroAuthOpts]
    ELSE [required |-> TRUE,
          auth |->
            [noAuthUser |-> IF wsClient /\ o.Websocket.NoAuthUser # ""
                            THEN o.Websocket.NoAuthUser ELSE o.NoAuthUser,
             tlsMap     |-> IF wsClient /\ o.Websocket.TLSMap THEN TRUE ELSE o.TLSMap,
             username |-> o.Username, password |-> o.Password, token |-> o.Authorization,
             users |-> IF wsClient /\ srv.websocket.authRequired
                       THEN srv.websocket.users ELSE srv.users,
             nkeys |-> IF wsClient /\ srv.websocket.authRequired
                       THEN srv.websocket.nkeys ELSE srv.nkeys]]

\* getAuthOpts(c, o, &auth): [required, auth], where wsClient is c.ws != nil,
\* srv the server's [AuthRequired, users, nkeys, websocket].
getAuthOpts(wsClient, o, srv) ==
    IF ~(IF ~srv.AuthRequired /\ wsClient THEN srv.websocket.authRequired
         ELSE srv.AuthRequired)
    THEN [required |-> FALSE, auth |-> ZeroAuthOpts]
    ELSE [required |-> TRUE,
          auth |->
            [noAuthUser |-> IF wsClient /\ o.Websocket.NoAuthUser # ""
                            THEN o.Websocket.NoAuthUser ELSE o.NoAuthUser,
             tlsMap     |-> IF wsClient /\ o.Websocket.TLSMap THEN TRUE ELSE o.TLSMap]
            @@ (IF wsClient /\ srv.websocket.authRequired
                THEN [username |-> o.Websocket.Username, password |-> o.Websocket.Password,
                      token |-> o.Websocket.Token, users |-> srv.websocket.users,
                      nkeys |-> srv.websocket.nkeys]
                ELSE [username |-> o.Username, password |-> o.Password,
                      token |-> o.Authorization, users |-> srv.users,
                      nkeys |-> srv.nkeys])]

-----------------------------------------------------------------------------
(* TLS subject extractor.                                                  *)
(* A certificate is [EmailAddresses, DNSNames, URIs, Subject, RawSubject]: *)
(* Subject is [str, rdn], the results of cert.Subject.String() and of      *)
(* cert.Subject.ToRDNSequence().String(); RawSubject is a pointer to the   *)
(* RDN sequence asn1.Unmarshal yields (nil when it fails), each RDN a      *)
(* sequence of [Type, Value, isString].                                    *)

RECURSIVE JoinStrings(_, _)
\* strings.Join
JoinStrings(ss, sep) ==
    IF Len(ss) = 0 THEN ""
    ELSE IF Len(ss) = 1 THEN ss[1]
    ELSE ss[1] \o sep \o JoinStrings(Tail(ss), sep)

RECURSIVE RdnDCs(_)
\* the inner loop of getTLSAuthDCs over one RDN
RdnDCs(rdn) ==
    IF Len(rdn) = 0 THEN << >>
    ELSE (IF rdn[1].isString /\ rdn[1].Type = "DC"
          THEN << "DC=" \o rdn[1].Value >> ELSE << >>) \o RdnDCs(Tail(rdn))

RECURSIVE RdnsDCs(_)
\* the outer loop of getTLSAuthDCs
RdnsDCs(rdns) ==
    IF Len(rdns) = 0 THEN << >> ELSE RdnDCs(rdns[1]) \o RdnsDCs(Tail(rdns))

getTLSAuthDCs(rdns) == JoinStrings(RdnsDCs(rdns), ",")

\* The identities checkClientTLSCertSubject presents to fn, in order, when
\* fn accepts none of them.
TLSCandidates(tlsState) ==
    IF tlsState = Nil THEN << >>
    ELSE IF Len(Val(tlsState).PeerCertificates) = 0 THEN << >>
    ELSE LET cert == Val(tlsState).PeerCertificates[1]
             hasSANs == Len(cert.DNSNames) > 0
             hasEmailAddresses == Len(cert.EmailAddresses) > 0
             hasSubject == cert.Subject.str # ""
             hasURIs == Len(cert.URIs) > 0
             first == IF hasEmailAddresses THEN cert.EmailAddresses \o cert.DNSNames
                      ELSE IF hasSANs THEN cert.DNSNames
                      ELSE IF hasURIs THEN cert.URIs
                      ELSE << >>
             dcs == IF cert.RawSubject = Nil THEN ""
                    ELSE getTLSAuthDCs(Val(cert.RawSubject))
             rdnDC == IF cert.RawSubject # Nil /\ dcs # ""
                      THEN << JoinStrings(<<cert.Subject.rdn, dcs>>, ",") >>
                      ELSE << >>
         IN  IF ~hasEmailAddresses /\ ~hasSubject /\ ~hasURIs THEN << >>
             ELSE first \o rdnDC \o << cert.Subject.str >>

\* checkClientTLSCertSubject(c, fn) for fn(u) == u \in matches:
\* [ok, tried, id], tried the identities presented to fn, id the one accepted.
checkClientTLSCertSubject(tlsState, matches) ==
    LET cs   == TLSCandidates(tlsState)
        hits == {i \in 1..Len(cs) : cs[i] \in matches}
        h    == CHOOSE i \in hits : \A j \in hits : i <= j
    IN  IF hits = {} THEN [ok |-> FALSE, tried |-> cs, id |-> ""]
        ELSE [ok |-> TRUE, tried |-> SubSeq(cs, 1, h), id |-> cs[h]]

-----------------------------------------------------------------------------
(* Signatures and JWTs.                                                    *)
(* c.opts.Sig is [enc, key, nonce]: enc "" for the empty string, "rawurl"  *)
(* or "std" for the encoding that decodes it, "bad" for neither; key and   *)
(* nonce are what was signed with. c.opts.JWT is [present, wellFormed,     *)
(* blocking, claims], present FALSE for the empty string.                  *)

EmptySig == [enc |-> "", key |-> "", nonce |-> ""]

\* nkeys.FromPublicKey succeeds on these strings
ValidPublicKeys == {"UKEY", "UNEW"}

\* base64.RawURLEncoding.DecodeString, then base64.StdEncoding.DecodeString
SigDecodes(sig) == IF sig.enc = "rawurl" THEN TRUE ELSE sig.enc = "std"

\* the signature steps without pub.Verify
SignatureOKUnverified(sig, pub, nonce) ==
    sig # EmptySig /\ SigDecodes(sig) /\ pub \in ValidPublicKeys

\* the signature steps of the ladder: pub is the public key string
SignatureOK(sig, pub, nonce) ==
    IF sig = EmptySig THEN FALSE
    ELSE IF ~SigDecodes(sig) THEN FALSE
    ELSE IF pub \notin ValidPublicKeys THEN FALSE
    ELSE sig.key = pub /\ sig.nonce = nonce

NoClaims == [Issuer |-> "", IssuerAccount |-> "", Subject |-> "", BearerToken |-> FALSE]
EmptyJWT == [present |-> FALSE, wellFormed |-> FALSE, blocking |-> FALSE, claims |-> NoClaims]

\* jwt.DecodeUserClaims: a pointer to the claims, nil on error
DecodeUserClaims(token) == IF token.wellFormed THEN Some(token.claims) ELSE Nil

\* juc.Validate(vr); vr.IsBlocking(true)
IsBlocking(token) == token.blocking

-----------------------------------------------------------------------------
(* State.                                                                  *)

VARIABLES
    opts,          \* s.opts, the options object in force
    trustedKeys,   \* s.trustedKeys, a slice of operator keys that may be nil
    users,         \* s.users
    nkeys,         \* s.nkeys
    AuthRequired,  \* s.info.AuthRequired
    websocket,     \* s.websocket: [authRequired, users, nkeys]
    accounts,      \* s.accounts, the registry: a set of accounts, one per name
    mu,            \* s.mu: the connection that holds it, or NoHolder
    conn,          \* the connections, by id
    scenario,      \* the family of options and CONNECTs this run draws from
    mem            \* the Permissions of one options entry and of its clone:
                   \* [m, src, copy, cloned, last], m the memory, src and copy
                   \* the two pointers, last the last operation on them

vars == << opts, trustedKeys, users, nkeys, AuthRequired, websocket, accounts, mu, conn,
           scenario, mem >>

Conns == {"c1", "c2"}
NoHolder == ""

\* what getAuthOpts reads of the server
Srv == [AuthRequired |-> AuthRequired, users |-> users, nkeys |-> nkeys,
        websocket |-> websocket]

\* A connection before checkAuthentication: its kind, its CONNECT options,
\* nonce and TLS state; the locals of processClientOrLeafAuthentication;
\* and what the check did to it (verdict, registrations, the calls made,
\* and which of them were made between s.mu.Lock() and s.mu.Unlock()).
NewConn(kind, ws, co, nonce, tls) ==
    [kind |-> kind, ws |-> ws, opts |-> co, nonce |-> nonce, tls |-> tls,
     pc |-> "new", auth |-> ZeroAuthOpts, juc |-> Nil, acc |-> Nil,
     nkey |-> Nil, user |-> Nil, verdict |-> "",
     regUser |-> Nil, regNkey |-> Nil, boundAcc |-> Nil, pubKey |-> "",
     tried |-> << >>, calls |-> {}, held |-> {}, nLock |-> 0, nUnlock |-> 0]

\* A connection that never arrives.
AbsentConn ==
    [NewConn("NONE", FALSE,
             [Username |-> "", Password |-> "", Token |-> "", JWT |-> EmptyJWT,
              Nkey |-> "", Sig |-> EmptySig], "", Nil)
     EXCEPT !.pc = "absent"]

\* the connection calls the operations named
Called(cr, names) ==
    [cr EXCEPT !.calls = @ \cup names,
               !.held = IF cr.nLock > cr.nUnlock THEN @ \cup names ELSE @]

\* the check returns
Return(cr, ok) ==
    [cr EXCEPT !.pc = "done", !.verdict = IF ok THEN "ACCEPTED" ELSE "DENIED"]

\* s.mu.Lock()
Locked(cr) == [cr EXCEPT !.nLock = @ + 1]

\* a path that forgets s.mu.Unlock()
StillLocked(cr) == cr

\* s.mu.Unlock()
Unlocked(cr) == [cr EXCEPT !.nUnlock = @ + 1]

-----------------------------------------------------------------------------
(* Account resolver and registry operations.                               *)

\* s.LookupAccount / s.lookupAccount: a pointer to the account, nil on error
lookupAccount(name) == accountsLoad(accounts, name)

\* s.isTrustedIssuer
isTrustedIssuer(issuer) ==
    trustedKeys # Nil /\ \E i \in 1..Len(Val(trustedKeys)) : Val(trustedKeys)[i] = issuer

\* acc.hasIssuer
hasIssuer(acc, issuer) == issuer \in acc.signingKeys

\* acc.checkUserRevoked
checkUserRevoked(acc, subject) == subject \in acc.revoked

\* buildInternalNkeyUser
buildInternalNkeyUser(juc, acc) ==
    [Nkey |-> juc.Subject, Permissions |-> Nil, Account |-> Some(acc),
     SigningKey |-> IF juc.IssuerAccount # "" THEN juc.Issuer ELSE ""]

\* s.globalAccount()
globalAccount == gacc

srvVars == << opts, trustedKeys, users, nkeys, AuthRequired, websocket, scenario, mem >>

-----------------------------------------------------------------------------
(* checkAuthentication: the dispatch on c.kind, and the checks of routers, *)
(* gateways and leaf nodes.                                                *)

\* Authentication.Check of a custom authenticator [allow]: it accepts the
\* connections whose CONNECT username it allows.
Check(authenticator, cr) == cr.opts.Username \in authenticator.allow

\* isClientAuthorized without the delegation to the custom authenticator
IsClientAuthorizedLadderOnly(c) ==
    /\ conn[c].pc = "new" /\ conn[c].kind = CLIENT
    /\ conn' = [conn EXCEPT ![c] = [@ EXCEPT !.pc = "lock"]]
    /\ UNCHANGED << srvVars, accounts, mu >>

\* isClientAuthorized
IsClientAuthorized(c) ==
    /\ conn[c].pc = "new" /\ conn[c].kind = CLIENT
    /\ conn' = [conn EXCEPT ![c] =
          IF opts.CustomClientAuthentication # Nil
          THEN Return(Called(@, {"CustomClientAuthentication.Check"}),
                      Check(Val(opts.CustomClientAuthentication), @))
          ELSE [@ EXCEPT !.pc = "lock"]]
    /\ UNCHANGED << srvVars, accounts, mu >>

\* the cluster/gateway check accepting on the username alone
PeerAuthorizedUsernameOnly(cr, sect) ==
    IF sect.Username = "" THEN Return(cr, TRUE)
    ELSE Return(cr, sect.Username = cr.opts.Username)

\* the cluster/gateway check shared by isRouterAuthorized and isGatewayAuthorized
\* after the custom authenticator: sect is opts.Cluster or opts.Gateway
PeerAuthorized(cr, sect) ==
    IF sect.Username = "" THEN Return(cr, TRUE)
    ELSE IF sect.TLSMap
    THEN LET r == checkClientTLSCertSubject(cr.tls, {sect.Username})
         IN Return([Called(cr, {"checkClientTLSCertSubject"}) EXCEPT !.tried = r.tried], r.ok)
    ELSE IF sect.Username # cr.opts.Username THEN Return(cr, FALSE)
    ELSE Return(Called(cr, {"comparePasswords"}),
                comparePasswords(sect.Password, cr.opts.Password))

\* isRouterAuthorized
IsRouterAuthorized(c) ==
    /\ conn[c].pc = "new" /\ conn[c].kind = ROUTER
    /\ conn' = [conn EXCEPT ![c] =
          IF opts.CustomRouterAuthentication # Nil
          THEN Return(Called(@, {"CustomRouterAuthentication.Check"}),
                      Check(Val(opts.CustomRouterAuthentication), @))
          ELSE PeerAuthorized(@, opts.Cluster)]
    /\ UNCHANGED << srvVars, accounts, mu >>

\* isGatewayAuthorized
IsGatewayAuthorized(c) ==
    /\ conn[c].pc = "new" /\ conn[c].kind = GATEWAY
    /\ conn' = [conn EXCEPT ![c] = PeerAuthorized(@, opts.Gateway)]
    /\ UNCHANGED << srvVars, accounts, mu >>

\* registerLeafWithAccount(c, account); err is whether c.registerWithAccount fails
registerLeafWithAccount(cr, account, err) ==
    LET acc == IF account # "" THEN lookupAccount(account) ELSE Some(globalAccount)
        c1  == Called(cr, {"registerLeafWithAccount"}
                          \cup (IF account # "" THEN {"lookupAccount"} ELSE {}))
    IN  IF acc = Nil THEN Return(c1, FALSE)
        ELSE IF err THEN Return(Called(c1, {"registerWithAccount"}), FALSE)
        ELSE Return([Called(c1, {"registerWithAccount"}) EXCEPT !.boundAcc = acc], TRUE)

\* the closure isAuthorized without its password compare
isAuthorizedNoPassword(cr, username, password, account, err) ==
    IF username # cr.opts.Username THEN Return(cr, FALSE)
    ELSE registerLeafWithAccount(cr, account, err)

\* the closure isAuthorized of isLeafNodeAuthorized
isAuthorized(cr, username, password, account, err) ==
    IF username # cr.opts.Username THEN Return(cr, FALSE)
    ELSE IF ~comparePasswords(password, cr.opts.Password)
    THEN Return(Called(cr, {"comparePasswords"}), FALSE)
    ELSE registerLeafWithAccount(Called(cr, {"comparePasswords"}), account, err)

\* isLeafNodeAuthorized
IsLeafNodeAuthorized(c) ==
    /\ conn[c].pc = "new" /\ conn[c].kind = LEAF
    /\ \E err \in BOOLEAN :
         LET cr == conn[c]
             ln == opts.LeafNode
             hits == {i \in 1..Len(ln.Users) : ln.Users[i].Username = cr.opts.Username}
             u == ln.Users[CHOOSE i \in hits : \A j \in hits : i <= j]
         IN conn' = [conn EXCEPT ![c] =
              IF ln.Username # ""
              THEN isAuthorized(cr, ln.Username, ln.Password, ln.Account, err)
              ELSE IF Len(ln.Users) > 0
              THEN IF hits = {} THEN Return(Called(cr, {"LeafNode.Users"}), FALSE)
                   ELSE isAuthorized(Called(cr, {"LeafNode.Users"}), u.Username, u.Password,
                                     IF u.Account # Nil THEN Val(u.Account).Name ELSE "", err)
              ELSE [cr EXCEPT !.pc = "lock"]]
    /\ UNCHANGED << srvVars, accounts, mu >>

-----------------------------------------------------------------------------
(* processClientOrLeafAuthentication. Each step below is a stretch of the  *)
(* function between two points where the connection may be suspended; it   *)
(* maps the connection's record to its record after the stretch. pc names  *)
(* the operation the connection is about to perform.                       *)

\* the dispatch at line 584: nkey candidate, user candidate, or neither
AfterGenerate(cr) ==
    IF cr.nkey # Nil THEN [cr EXCEPT !.pc = "VerifyNkeySig"]
    ELSE IF cr.user # Nil THEN [cr EXCEPT !.pc = "ComparePassword"]
    ELSE [cr EXCEPT !.pc = "StaticOrLeaf"]

\* the dispatch at line 549: the generated-account path
AfterJWT(cr) ==
    IF cr.nkey = Nil /\ cr.kind = CLIENT /\ cr.opts.Nkey # "" /\ opts.SystemAccount # ""
    THEN [cr EXCEPT !.pc = "LoadGenerated"]
    ELSE AfterGenerate(cr)

\* the dispatch at line 481: the user-JWT path
AfterUnlock(cr) ==
    IF cr.juc # Nil THEN [cr EXCEPT !.pc = "LookupAccount"] ELSE AfterJWT(cr)

\* lines 396-411 without the trusted-operator gate
GateStepNoTrustedGate(cr) ==
    LET r  == getAuthOpts(cr.ws, opts, Srv)
        c1 == [Called(cr, {"getAuthOpts"}) EXCEPT !.auth = r.auth]
    IN  IF ~r.required THEN Return(Unlocked(c1), TRUE)
        ELSE IF trustedKeys # Nil /\ cr.opts.JWT.present
        THEN [c1 EXCEPT !.pc = "DecodeUserClaims"]
        ELSE [c1 EXCEPT !.pc = "Candidates"]

\* lines 396-411: the selector, the auth-not-required accept and the
\* trusted-operator gate
GateStep(cr) ==
    LET r  == getAuthOpts(cr.ws, opts, Srv)
        c1 == [Called(cr, {"getAuthOpts"}) EXCEPT !.auth = r.auth]
    IN  IF ~r.required THEN Return(Unlocked(c1), TRUE)
        ELSE IF trustedKeys # Nil
        THEN IF ~cr.opts.JWT.present /\ (cr.opts.Nkey = "" \/ opts.SystemAccount = "")
             THEN Return(Unlocked(c1), FALSE)
             ELSE IF cr.opts.JWT.present THEN [c1 EXCEPT !.pc = "DecodeUserClaims"]
             ELSE [c1 EXCEPT !.pc = "Candidates"]
        ELSE [c1 EXCEPT !.pc = "Candidates"]

\* lines 412-424 without the s.mu.Unlock() of line 414: the return for an
\* undecodable JWT leaves the mutex locked
DecodeStepHoldingOnError(cr) ==
    LET juc == DecodeUserClaims(cr.opts.JWT)
        c1  == Called(cr, {"DecodeUserClaims"})
    IN  IF juc = Nil THEN Return(c1, FALSE)
        ELSE IF IsBlocking(cr.opts.JWT) THEN Return(Unlocked(Called(c1, {"Validate"})), FALSE)
        ELSE [Called(c1, {"Validate"}) EXCEPT !.juc = juc, !.pc = "Candidates"]

\* lines 412-424: decode and validate the user JWT
DecodeStep(cr) ==
    LET juc == DecodeUserClaims(cr.opts.JWT)
        c1  == Called(cr, {"DecodeUserClaims"})
    IN  IF juc = Nil THEN Return(Unlocked(c1), FALSE)
        ELSE IF IsBlocking(cr.opts.JWT) THEN Return(Unlocked(Called(c1, {"Validate"})), FALSE)
        ELSE [Called(c1, {"Validate"}) EXCEPT !.juc = juc, !.pc = "Candidates"]

\* lines 439-460: the users table keyed by the identity of the certificate
TLSMapStep(cr) ==
    LET tbl == Val(cr.auth.users)
        r   == checkClientTLSCertSubject(cr.tls, DOMAIN tbl)
        c1  == [Called(cr, {"checkClientTLSCertSubject"}) EXCEPT !.tried = r.tried]
    IN  IF ~r.ok THEN Return(Unlocked(c1), FALSE)
        ELSE AfterUnlock(Unlocked([c1 EXCEPT !.user = Some(tbl[r.id]),
                                             !.opts.Username = r.id]))

\* lines 462-467: the no_auth_user substitution
NoAuthUserStep(cr) ==
    LET tbl == Val(cr.auth.users)
    IN  IF cr.kind = CLIENT /\ cr.opts.Username = "" /\ cr.auth.noAuthUser # ""
        THEN IF cr.auth.noAuthUser \in DOMAIN tbl
             THEN [Called(cr, {"noAuthUser"}) EXCEPT
                      !.opts.Username = tbl[cr.auth.noAuthUser].Username,
                      !.opts.Password = tbl[cr.auth.noAuthUser].Password]
             ELSE Called(cr, {"noAuthUser"})
        ELSE cr

\* lines 461-475: the users table keyed by the CONNECT username
UsersStep(cr) ==
    LET tbl == Val(cr.auth.users)
        c1  == NoAuthUserStep(cr)
    IN  IF c1.opts.Username # ""
        THEN IF c1.opts.Username \in DOMAIN tbl
             THEN AfterUnlock(Unlocked([Called(c1, {"users[]"}) EXCEPT
                                           !.user = Some(tbl[c1.opts.Username])]))
             ELSE Return(Unlocked(Called(c1, {"users[]"})), FALSE)
        ELSE AfterUnlock(Unlocked(c1))

\* lines 428-477: the nkey and user candidates, then s.mu.Unlock()
CandidatesStep(cr) ==
    LET hasNkeys == cr.auth.nkeys # Nil
        hasUsers == cr.auth.users # Nil
    IN  IF hasNkeys /\ cr.opts.Nkey # ""
        THEN LET tbl == Val(cr.auth.nkeys)
                 ok  == cr.opts.Nkey \in DOMAIN tbl
                 c1  == [Called(cr, {"nkeys[]"}) EXCEPT
                            !.nkey = IF ok THEN Some(tbl[cr.opts.Nkey]) ELSE Nil]
             IN  IF ~ok /\ opts.SystemAccount = "" THEN Return(Unlocked(c1), FALSE)
                 ELSE AfterUnlock(Unlocked(c1))
        ELSE IF hasUsers
        THEN IF cr.auth.tlsMap THEN TLSMapStep(cr) ELSE UsersStep(cr)
        ELSE AfterUnlock(Unlocked(cr))

\* lines 482-501: the account of the user JWT
JWTAccountStep(cr) ==
    LET juc    == Val(cr.juc)
        issuer == IF juc.IssuerAccount # "" THEN juc.IssuerAccount ELSE juc.Issuer
        acc    == lookupAccount(issuer)
        c1     == Called(cr, {"LookupAccount"})
    IN  IF acc = Nil THEN Return(c1, FALSE)
        ELSE IF ~isTrustedIssuer(Val(acc).Issuer)
        THEN Return(Called(c1, {"isTrustedIssuer"}), FALSE)
        ELSE IF juc.IssuerAccount # "" /\ ~hasIssuer(Val(acc), juc.Issuer)
        THEN Return(Called(c1, {"isTrustedIssuer", "hasIssuer"}), FALSE)
        ELSE IF Val(acc).expired
        THEN Return(Called(c1, {"isTrustedIssuer", "IsExpired"}), FALSE)
        ELSE [Called(c1, {"isTrustedIssuer", "IsExpired"}
                         \cup (IF juc.IssuerAccount # "" THEN {"hasIssuer"} ELSE {}))
              EXCEPT
                 !.acc = acc,
                 !.pc = IF ~juc.BearerToken THEN "VerifyJWTSig" ELSE "RegisterJWTUser"]

\* lines 504-528 with the result of the verification ignored
JWTSigStepUnchecked(cr) == [Called(cr, {"Verify"}) EXCEPT !.pc = "RegisterJWTUser"]

\* lines 504-528: the signature of the nonce, by the subject of the JWT
JWTSigStep(cr) ==
    IF SignatureOK(cr.opts.Sig, Val(cr.juc).Subject, cr.nonce)
    THEN [Called(cr, {"Verify"}) EXCEPT !.pc = "RegisterJWTUser"]
    ELSE Return(Called(cr, {"Verify"}), FALSE)

\* lines 529-546 without the revocation check
JWTRegisterStepNoRevocation(cr, err) ==
    LET nkey == buildInternalNkeyUser(Val(cr.juc), Val(cr.acc))
    IN  IF err
        THEN Return([Called(cr, {"RegisterNkeyUser"}) EXCEPT !.nkey = Some(nkey)], FALSE)
        ELSE Return([Called(cr, {"RegisterNkeyUser", "accountConnectEvent", "checkExpiration"})
                       EXCEPT !.nkey = Some(nkey), !.regNkey = Some(nkey),
                              !.pubKey = Val(cr.juc).Subject], TRUE)

\* lines 529-546: revocation and registration; err is whether
\* c.RegisterNkeyUser fails
JWTRegisterStep(cr, err) ==
    LET juc  == Val(cr.juc)
        acc  == Val(cr.acc)
        nkey == buildInternalNkeyUser(juc, acc)
        c1   == Called(cr, {"checkUserRevoked"})
    IN  IF checkUserRevoked(acc, juc.Subject) THEN Return(c1, FALSE)
        ELSE IF err
        THEN Return([Called(c1, {"RegisterNkeyUser"}) EXCEPT !.nkey = Some(nkey)], FALSE)
        ELSE Return([Called(c1, {"RegisterNkeyUser", "accountConnectEvent", "checkExpiration"})
                       EXCEPT !.nkey = Some(nkey), !.regNkey = Some(nkey),
                              !.pubKey = juc.Subject], TRUE)

\* lines 578-581: the NkeyUser of a generated account
GeneratedNkeyUser(cr, nkeyAcc) ==
    [Nkey |-> cr.opts.Nkey, Permissions |-> PermissionsClone(Nil),
     Account |-> Some(nkeyAcc), SigningKey |-> ""]

\* lines 551-553: the generated account, when it is registered already
LoadGeneratedStep(cr) ==
    LET acc == accountsLoad(accounts, cr.opts.Nkey)
        c1  == Called(cr, {"accounts.Load"})
    IN  IF acc # Nil
        THEN AfterGenerate([c1 EXCEPT !.nkey = Some(GeneratedNkeyUser(cr, Val(acc)))])
        ELSE [c1 EXCEPT !.pc = "GenerateAccount"]

\* lines 584-611: the signature of the nonce, by the CONNECT nkey; err is
\* whether c.RegisterNkeyUser fails
NkeySigStep(cr, err) ==
    IF ~SignatureOK(cr.opts.Sig, cr.opts.Nkey, cr.nonce)
    THEN Return(Called(cr, {"Verify"}), FALSE)
    ELSE IF err THEN Return(Called(cr, {"Verify", "RegisterNkeyUser"}), FALSE)
    ELSE Return([Called(cr, {"Verify", "RegisterNkeyUser"}) EXCEPT !.regNkey = cr.nkey], TRUE)

\* lines 613-623: the password of the user candidate
PasswordStep(cr) ==
    LET ok == comparePasswords(Val(cr.user).Password, cr.opts.Password)
        c1 == Called(cr, {"comparePasswords"})
    IN  IF ok
        THEN Return([Called(c1, {"RegisterUser", "accountConnectEvent"})
                       EXCEPT !.regUser = cr.user], TRUE)
        ELSE Return(c1, FALSE)

\* lines 625-642: the static token or username of a client, the account of a
\* leaf node; err is whether c.registerWithAccount fails
StaticStep(cr, err) ==
    IF cr.kind = CLIENT
    THEN IF cr.auth.token # ""
         THEN Return(Called(cr, {"comparePasswords"}),
                     comparePasswords(cr.auth.token, cr.opts.Token))
         ELSE IF cr.auth.username # ""
         THEN IF cr.auth.username # cr.opts.Username THEN Return(cr, FALSE)
              ELSE Return(Called(cr, {"comparePasswords"}),
                          comparePasswords(cr.auth.password, cr.opts.Password))
         ELSE Return(cr, FALSE)
    ELSE IF cr.kind = LEAF THEN registerLeafWithAccount(cr, opts.LeafNode.Account, err)
    ELSE Return(cr, FALSE)

-----------------------------------------------------------------------------
(* The steps as actions of connection c. A step that calls s.mu.Unlock()   *)
(* frees the mutex.                                                        *)

\* a step whose no_auth_user substitution is written the wrong way round,
\* into the entry of the users table
StepWritingEntry(c, new) ==
    /\ conn' = [conn EXCEPT ![c] = new]
    /\ mu' = IF new.nUnlock > conn[c].nUnlock THEN NoHolder ELSE mu
    /\ users' = IF /\ "noAuthUser" \in new.calls \ conn[c].calls
                   /\ users # Nil /\ new.auth.noAuthUser \in DOMAIN Val(users)
                THEN Some([Val(users) EXCEPT
                             ![new.auth.noAuthUser].Password = conn[c].opts.Password])
                ELSE users
    /\ UNCHANGED << opts, trustedKeys, nkeys, AuthRequired, websocket, scenario, mem >>

\* a step of connection c: its record becomes new; the server's options and
\* tables are read, never written
Step(c, new) ==
    /\ conn' = [conn EXCEPT ![c] = new]
    /\ mu' = IF new.nUnlock > conn[c].nUnlock THEN NoHolder ELSE mu
    /\ UNCHANGED srvVars

\* s.mu.Lock()
Lock(c) ==
    /\ conn[c].pc = "lock"
    /\ mu = NoHolder
    /\ mu' = c
    /\ conn' = [conn EXCEPT ![c] = Locked([@ EXCEPT !.pc = "getAuthOpts"])]
    /\ UNCHANGED << srvVars, accounts >>

Gate(c) ==
    /\ conn[c].pc = "getAuthOpts"
    /\ Step(c, GateStep(conn[c]))
    /\ UNCHANGED accounts

DecodeJWT(c) ==
    /\ conn[c].pc = "DecodeUserClaims"
    /\ Step(c, DecodeStep(conn[c]))
    /\ UNCHANGED accounts

Candidates(c) ==
    /\ conn[c].pc = "Candidates"
    /\ Step(c, CandidatesStep(conn[c]))
    /\ UNCHANGED accounts

JWTAccount(c) ==
    /\ conn[c].pc = "LookupAccount"
    /\ Step(c, JWTAccountStep(conn[c]))
    /\ UNCHANGED accounts

JWTSig(c) ==
    /\ conn[c].pc = "VerifyJWTSig"
    /\ Step(c, JWTSigStep(conn[c]))
    /\ UNCHANGED accounts

JWTRegister(c) ==
    /\ conn[c].pc = "RegisterJWTUser"
    /\ \E err \in BOOLEAN : Step(c, JWTRegisterStep(conn[c], err))
    /\ UNCHANGED accounts

LoadGenerated(c) ==
    /\ conn[c].pc = "LoadGenerated"
    /\ Step(c, LoadGeneratedStep(conn[c]))
    /\ UNCHANGED accounts

\* s.registerAccount(acc), load-or-register on the registry: the account
\* registered earlier under the name of acc, which stays registered, or nil
\* when there is none and acc is registered
registerAccount(reg, acc) == accountsLoad(reg, acc.Name)

\* lines 555-576 without line 573: a connection that finds the name
\* registered keeps the account it built itself
GenerateAccountKeepingBuilt(c) ==
    /\ conn[c].pc = "GenerateAccount"
    /\ \E upd \in {"nil", "same", "other"} :
         LET cr    == conn[c]
             sAcc  == lookupAccount(opts.SystemAccount)
             built == [Val(sAcc) EXCEPT !.Name = cr.opts.Nkey, !.origin = c]
             racc  == registerAccount(accounts, built)
             c1    == Called(cr, {"lookupAccount"})
             c2    == Called(c1, {"verifyAccountClaims"})
             c3    == Called(c2, {"registerAccount"})
         IN  IF sAcc = Nil
             THEN Step(c, Return(c1, FALSE)) /\ UNCHANGED accounts
             ELSE IF ~Val(sAcc).claimOK
             THEN Step(c, Return(c2, FALSE)) /\ UNCHANGED accounts
             ELSE IF racc = Nil
             THEN /\ accounts' = accounts \cup {built}
                  /\ Step(c, AfterGenerate([c3 EXCEPT !.nkey = Some(GeneratedNkeyUser(cr, built))]))
             ELSE IF upd = "other"
             THEN /\ Step(c, Return(Called(c3, {"updateAccountWithClaimJWT"}), FALSE))
                  /\ UNCHANGED accounts
             ELSE /\ Step(c, AfterGenerate([Called(c3, {"updateAccountWithClaimJWT"}) EXCEPT
                                !.nkey = Some(GeneratedNkeyUser(cr, built))]))
                  /\ UNCHANGED accounts

\* lines 555-576: build the account named by the nkey from the system
\* account's claims and register it; upd is what updateAccountWithClaimJWT
\* returns when the name was registered meanwhile ("nil", "same" for
\* ErrAccountResolverSameClaims, "other").
GenerateAccount(c) ==
    /\ conn[c].pc = "GenerateAccount"
    /\ \E upd \in {"nil", "same", "other"} :
         LET cr    == conn[c]
             sAcc  == lookupAccount(opts.SystemAccount)
             built == [Val(sAcc) EXCEPT !.Name = cr.opts.Nkey, !.origin = c]
             racc  == registerAccount(accounts, built)
             c1    == Called(cr, {"lookupAccount"})
             c2    == Called(c1, {"verifyAccountClaims"})
             c3    == Called(c2, {"registerAccount"})
         IN  IF sAcc = Nil
             THEN Step(c, Return(c1, FALSE)) /\ UNCHANGED accounts
             ELSE IF ~Val(sAcc).claimOK
             THEN Step(c, Return(c2, FALSE)) /\ UNCHANGED accounts
             ELSE IF racc = Nil
             THEN /\ accounts' = accounts \cup {built}
                  /\ Step(c, AfterGenerate([c3 EXCEPT !.nkey = Some(GeneratedNkeyUser(cr, built))]))
             ELSE IF upd = "other"
             THEN /\ Step(c, Return(Called(c3, {"updateAccountWithClaimJWT"}), FALSE))
                  /\ UNCHANGED accounts
             ELSE /\ Step(c, AfterGenerate([Called(c3, {"updateAccountWithClaimJWT"}) EXCEPT
                                !.nkey = Some(GeneratedNkeyUser(cr, Val(racc)))]))
                  /\ UNCHANGED accounts

NkeySig(c) ==
    /\ conn[c].pc = "VerifyNkeySig"
    /\ \E err \in BOOLEAN : Step(c, NkeySigStep(conn[c], err))
    /\ UNCHANGED accounts

Password(c) ==
    /\ conn[c].pc = "ComparePassword"
    /\ Step(c, PasswordStep(conn[c]))
    /\ UNCHANGED accounts

Static(c) ==
    /\ conn[c].pc = "StaticOrLeaf"
    /\ \E err \in BOOLEAN : Step(c, StaticStep(conn[c], err))
    /\ UNCHANGED accounts

-----------------------------------------------------------------------------
(* Options objects, registries and connections of the model.               *)

MaxUsers == 2

SeqsUpTo(S, n) == UNION {[1..k -> S] : k \in 1..n}

NoPeerAuth == [Username |-> "", Password |-> "", TLSMap |-> FALSE]

DefaultOptions ==
    [Username |-> "", Password |-> "", Authorization |-> "", NoAuthUser |-> "",
     TLSMap |-> FALSE, Users |-> Nil, Nkeys |-> Nil, SystemAccount |-> "",
     TrustedOperators |-> << >>,
     CustomClientAuthentication |-> Nil, CustomRouterAuthentication |-> Nil,
     Cluster |-> NoPeerAuth, Gateway |-> NoPeerAuth,
     LeafNode |-> [Username |-> "", Password |-> "", Account |-> "", Users |-> << >>],
     Websocket |-> [Username |-> "", Password |-> "", Token |-> "", NoAuthUser |-> "",
                    TLSMap |-> FALSE, Users |-> Nil, Nkeys |-> Nil]]

\* the operator key that signs the accounts of the model
OperatorKey == "OP"

SystemAccountName == "SYS"
sysAccount == Account(SystemAccountName, OperatorKey, FALSE, {}, {}, TRUE, "registry")
acmeAccount == Account("ACME", OperatorKey, FALSE, {"SK"}, {}, TRUE, "registry")

\* an account as an options entry declares it: a name, to be resolved
DeclaredAccount(name) == Account(name, "", FALSE, {}, {}, TRUE, "declared")

UserEntry(name, pw, acc) ==
    [Username |-> name, Password |-> pw, Permissions |-> Nil, Account |-> acc]

ResponseOnly ==
    Some([Publish |-> Nil, Subscribe |-> Nil,
          Response |-> Some([MaxMsgs |-> 0, Expires |-> 0])])

UserPool ==
    { [UserEntry("alice", "s3cret", Nil) EXCEPT !.Permissions = ResponseOnly],
      UserEntry("bob", BcryptOf("s3cret"), Some(DeclaredAccount("ACME"))),
      UserEntry("guest", "", Some(DeclaredAccount("GHOST"))) }

ConnectOpts(u, p, t, j, n, sg) ==
    [Username |-> u, Password |-> p, Token |-> t, JWT |-> j, Nkey |-> n, Sig |-> sg]

Sig(enc, key, nonce) == [enc |-> enc, key |-> key, nonce |-> nonce]

NonceOf(c) == "nonce-" \o c

\* s.trustedKeys as the server derives it from the options at start
TrustedKeysOf(o) ==
    IF Len(o.TrustedOperators) = 0 THEN Nil
    ELSE Some(o.TrustedOperators)

\* validateAuth without the trusted-operator test
validateAuthUsersOnly(o) ==
    IF o.NoAuthUser = "" THEN TRUE
    ELSE IF o.Users = Nil THEN FALSE
    ELSE \E i \in 1..Len(Val(o.Users)) : Val(o.Users)[i].Username = o.NoAuthUser

\* validateAuth(o) = nil
validateAuth(o) ==
    IF o.NoAuthUser = "" THEN TRUE
    ELSE IF Len(o.TrustedOperators) > 0 THEN FALSE
    ELSE IF o.Users = Nil THEN FALSE
    ELSE \E i \in 1..Len(Val(o.Users)) : Val(o.Users)[i].Username = o.NoAuthUser

\* the server after NewServer: r is what configureAuthorization sets
Install(sc, o, reg, r) ==
    /\ scenario' = sc
    /\ opts' = o
    /\ trustedKeys' = TrustedKeysOf(o)
    /\ accounts' = reg
    /\ users' = r.users
    /\ nkeys' = r.nkeys
    /\ AuthRequired' = r.AuthRequired
    /\ websocket' = r.websocket
    /\ UNCHANGED << mu, conn, mem >>

\* NewServer(o) returns the error of validateAuth: no server starts, opts
\* keeps the options object that was refused
Refuse(o) ==
    /\ scenario' = "invalid"
    /\ opts' = o
    /\ UNCHANGED << trustedKeys, users, nkeys, AuthRequired, websocket, accounts, mu, conn,
                    mem >>

\* NewServer(o): the server starts with options o that validateAuth accepts
\* and the accounts reg registered; configureAuthorization runs once, on a
\* server without tables. With options validateAuth refuses, no server.
NewServer(sc, o, reg) ==
    IF validateAuth(o)
    THEN Install(sc, o, reg, configureAuthorization(o, TrustedKeysOf(o), Nil, Nil, reg))
    ELSE Refuse(o)

\* a connection arrives: the server creates its client and issues its nonce
Arrive(c, kind, ws, co, tls) ==
    /\ conn' = [conn EXCEPT ![c] = NewConn(kind, ws, co, NonceOf(c), tls)]
    /\ UNCHANGED << srvVars, accounts, mu >>

StaticConfigs ==
    { [Username |-> "", Password |-> "", Authorization |-> ""],
      [Username |-> "", Password |-> "", Authorization |-> "tok"],
      [Username |-> "alice", Password |-> "wrong", Authorization |-> ""] }

\* Users tables keyed by CONNECT username, with and without no_auth_user,
\* a static token or user, and a system account.
StartUsers ==
    /\ scenario = "down"
    /\ \E ul \in SeqsUpTo(UserPool, MaxUsers), nau \in {"", "guest", "bob", "nobody"},
       st \in StaticConfigs, sys \in {"", SystemAccountName} :
      NewServer("users",
                [DefaultOptions EXCEPT !.Users = Some(ul), !.NoAuthUser = nau,
                    !.Username = st.Username, !.Password = st.Password,
                    !.Authorization = st.Authorization, !.SystemAccount = sys],
                {gacc, sysAccount, acmeAccount})

ConnectUsers(c) ==
    /\ scenario = "users" /\ c = "c1"
    /\ conn[c].pc = "absent"
    /\ \E kind \in {CLIENT, LEAF}, u \in {"", "alice", "bob", "mallory"},
          p \in {"", "s3cret", "wrong"}, t \in {"", "tok"}, nk \in {"", "UNEW"} :
         Arrive(c, kind, FALSE,
                ConnectOpts(u, p, t, EmptyJWT, nk,
                            IF nk = "" THEN EmptySig ELSE Sig("rawurl", nk, NonceOf(c))),
                Nil)

MaxIdentities == 2

\* cert.Subject and cert.RawSubject: no subject; a common name; a common
\* name with domain components; domain components that are not strings;
\* a raw subject asn1.Unmarshal rejects.
ATV(t, v, str) == [Type |-> t, Value |-> v, isString |-> str]
Subjects ==
    { [Subject |-> [str |-> "", rdn |-> ""], RawSubject |-> Some(<< >>)],
      [Subject |-> [str |-> "CN=host", rdn |-> "CN=host"],
       RawSubject |-> Some(<< << ATV("CN", "host", TRUE) >> >>)],
      [Subject |-> [str |-> "CN=host", rdn |-> "CN=host"],
       RawSubject |-> Some(<< << ATV("CN", "host", TRUE) >>, << >>,
                              << ATV("DC", "example", TRUE), ATV("DC", "com", TRUE) >> >>)],
      [Subject |-> [str |-> "CN=host", rdn |-> "CN=host"],
       RawSubject |-> Some(<< << ATV("CN", "host", TRUE) >>, << ATV("DC", "example", FALSE) >> >>)],
      [Subject |-> [str |-> "CN=host", rdn |-> "CN=host"], RawSubject |-> Nil] }

Certificate(emails, sans, uris, subj) ==
    [EmailAddresses |-> emails, DNSNames |-> sans, URIs |-> uris,
     Subject |-> subj.Subject, RawSubject |-> subj.RawSubject]

Certificates ==
    { Certificate(e, d, u, sj) :
        e \in {<< >>} \cup SeqsUpTo({"a@x.io", "b@x.io"}, MaxIdentities),
        d \in {<< >>} \cup SeqsUpTo({"host.example", "other.example"}, MaxIdentities),
        u \in {<< >>, << "spiffe://x" >>},
        sj \in Subjects }

DecoyCertificate ==
    Certificate(<< "a@x.io" >>, << "host.example" >>, << "spiffe://x" >>,
                [Subject |-> [str |-> "CN=host", rdn |-> "CN=host"], RawSubject |-> Nil])

\* c.GetTLSConnectionState(): none, no peer certificate, one, or two
TLSStates ==
    {Nil, Some([PeerCertificates |-> << >>])}
      \cup {Some([PeerCertificates |-> << ct >>]) : ct \in Certificates}
      \cup {Some([PeerCertificates |-> << Certificate(<< >>, << >>, << >>, sj), DecoyCertificate >>]) :
              sj \in Subjects}

TLSUserLists ==
    { << UserEntry("host.example", "", Nil) >>,
      << UserEntry("a@x.io", "", Nil) >>,
      << UserEntry("spiffe://x", "", Nil) >>,
      << UserEntry("CN=host,DC=example,DC=com", "", Nil) >>,
      << UserEntry("CN=host", "s3cret", Nil) >>,
      << UserEntry("a@x.io", "s3cret", Nil), UserEntry("host.example", "", Nil) >>,
      << UserEntry("other.example", "", Nil), UserEntry("CN=host", "", Nil) >> }

\* Users tables keyed by the identity of the peer certificate (tls_map).
StartTLSMap ==
    /\ scenario = "down"
    /\ \E ul \in TLSUserLists :
      NewServer("tlsmap", [DefaultOptions EXCEPT !.Users = Some(ul), !.TLSMap = TRUE],
                {gacc, sysAccount})

ConnectTLSMap(c) ==
    /\ scenario = "tlsmap" /\ c = "c1"
    /\ conn[c].pc = "absent"
    /\ \E tls \in TLSStates, u \in {"", "alice"}, p \in {"", "s3cret"} :
         Arrive(c, CLIENT, FALSE, ConnectOpts(u, p, "", EmptyJWT, "", EmptySig), tls)

NkeyEntry(k) == [Nkey |-> k, Permissions |-> Nil, Account |-> Nil, SigningKey |-> ""]

\* the signatures a CONNECT may carry for the public key k and the nonce n
Sigs(k, n) ==
    { EmptySig, Sig("rawurl", k, n), Sig("std", k, n), Sig("bad", k, n),
      Sig("rawurl", k, "stale"), Sig("std", "UOTHER", n) }

Registries ==
    { {gacc, sysAccount}, {gacc}, {gacc, [sysAccount EXCEPT !.claimOK = FALSE]},
      {gacc, sysAccount, [sysAccount EXCEPT !.Name = "UNEW"]} }

\* Nkeys tables, beside a users table, no_auth_user and tls_map.
StartNkeys ==
    /\ scenario = "down"
    /\ \E nl \in SeqsUpTo({NkeyEntry("UKEY"), NkeyEntry("BADKEY")}, MaxUsers),
       ul \in {Nil, Some(<< UserEntry("alice", "s3cret", Nil) >>)},
       um \in {[nau |-> "", tm |-> FALSE], [nau |-> "alice", tm |-> FALSE],
               [nau |-> "", tm |-> TRUE]},
       sys \in {"", SystemAccountName}, reg \in Registries :
      NewServer("nkeys",
                [DefaultOptions EXCEPT !.Nkeys = Some(nl), !.Users = ul,
                    !.NoAuthUser = um.nau, !.TLSMap = um.tm, !.SystemAccount = sys], reg)

ConnectNkeys(c) ==
    /\ scenario = "nkeys" /\ c = "c1"
    /\ conn[c].pc = "absent"
    /\ \E kind \in {CLIENT, LEAF}, nk \in {"", "UKEY", "UNEW", "BADKEY"}, u \in {"", "alice"} :
         \E sg \in Sigs(IF nk = "" THEN "UKEY" ELSE nk, NonceOf(c)) :
           Arrive(c, kind, FALSE, ConnectOpts(u, "s3cret", "", EmptyJWT, nk, sg), Nil)

Claims(iss, ia, sub, bearer) ==
    [Issuer |-> iss, IssuerAccount |-> ia, Subject |-> sub, BearerToken |-> bearer]

JWT(wellFormed, blocking, claims) ==
    [present |-> TRUE, wellFormed |-> wellFormed, blocking |-> blocking, claims |-> claims]

\* the user JWTs a CONNECT may carry: none, one that does not decode, one the
\* validator blocks, and valid ones issued by the account or by a signing key
JWTs ==
    { EmptyJWT, JWT(FALSE, FALSE, NoClaims),
      JWT(TRUE, TRUE, Claims("ACME", "", "UKEY", FALSE)) }
      \cup { JWT(TRUE, FALSE, Claims(i.iss, i.ia, sub, b)) :
               i \in { [iss |-> "ACME", ia |-> ""], [iss |-> "SK", ia |-> "ACME"],
                       [iss |-> "SK2", ia |-> "ACME"], [iss |-> "NOACC", ia |-> ""] },
               sub \in {"UKEY", "garbage"}, b \in BOOLEAN }

\* the registry with the account ACME in every state, or without it
JWTRegistries ==
    { {gacc, sysAccount} }
      \cup { {gacc, sysAccount, Account("ACME", iss, ex, sk, rv, TRUE, "registry")} :
               iss \in {OperatorKey, "XOP", ""}, ex \in BOOLEAN,
               sk \in {{}, {"SK"}}, rv \in {{}, {"UKEY"}} }

\* Trusted operators: user JWTs.
StartJWT ==
    /\ scenario = "down"
    /\ \E sys \in {"", SystemAccountName}, reg \in JWTRegistries :
      NewServer("jwt",
                [DefaultOptions EXCEPT !.TrustedOperators = << OperatorKey >>,
                    !.SystemAccount = sys], reg)

ConnectJWT(c) ==
    /\ scenario = "jwt" /\ c = "c1"
    /\ conn[c].pc = "absent"
    /\ \E kind \in {CLIENT, LEAF}, j \in JWTs, nk \in {"", "UNEW"},
          sg \in Sigs("UKEY", NonceOf(c)) :
         Arrive(c, kind, FALSE, ConnectOpts("", "", "", j, nk, sg), Nil)

\* Options whose websocket section and top level both carry static
\* credentials, a TLS map or a no_auth_user
WebsocketOverrides ==
    { [DefaultOptions EXCEPT !.Username = "alice", !.Password = "s3cret",
          !.Websocket = [@ EXCEPT !.Username = "guest", !.Password = "wrong"]],
      [DefaultOptions EXCEPT !.Users = Some(<< UserEntry("alice", "s3cret", Nil) >>),
          !.NoAuthUser = "alice", !.Websocket = [@ EXCEPT !.TLSMap = TRUE]],
      [DefaultOptions EXCEPT !.Authorization = "tok", !.TLSMap = TRUE,
          !.Websocket = [@ EXCEPT !.NoAuthUser = "guest"]] }

\* The websocket section: its own users, token and no_auth_user, with and
\* without trusted operators and top-level users.
StartWebsocket ==
    /\ scenario = "down"
    /\ \/ \E o \in WebsocketOverrides : NewServer("websocket", o, {gacc, sysAccount, acmeAccount})
       \/ \E tr \in {<< >>, << OperatorKey >>}, sys \in {"", SystemAccountName},
          top \in {Nil, Some(<< UserEntry("alice", "s3cret", Nil) >>)},
          wu \in {Nil, Some(<< UserEntry("guest", "", Nil) >>),
                  Some(<< UserEntry("alice", "wrong", Nil) >>)},
          wt \in {"", "tok"}, wn \in {"", "guest"} :
         NewServer("websocket",
                   [DefaultOptions EXCEPT !.TrustedOperators = tr, !.SystemAccount = sys,
                       !.Users = top,
                       !.Websocket = [@ EXCEPT !.Users = wu, !.Token = wt, !.NoAuthUser = wn]],
                   {gacc, sysAccount, acmeAccount})

ConnectWebsocket(c) ==
    /\ scenario = "websocket" /\ c = "c1"
    /\ conn[c].pc = "absent"
    /\ \E ws \in BOOLEAN, u \in {"", "alice", "guest"}, p \in {"", "s3cret", "wrong"},
          t \in {"", "tok"},
          j \in {EmptyJWT, JWT(TRUE, FALSE, Claims("ACME", "", "UKEY", TRUE))} :
         Arrive(c, CLIENT, ws, ConnectOpts(u, p, t, j, "", EmptySig), Nil)

Authenticators == {Nil, Some([allow |-> {}]), Some([allow |-> {"alice"}])}

PeerAuths ==
    { NoPeerAuth, [Username |-> "alice", Password |-> "s3cret", TLSMap |-> FALSE],
      [Username |-> "alice", Password |-> BcryptOf("s3cret"), TLSMap |-> FALSE],
      [Username |-> "a@x.io", Password |-> "s3cret", TLSMap |-> TRUE],
      [Username |-> "b@x.io", Password |-> "", TLSMap |-> TRUE] }

LeafAuths ==
    { [Username |-> "", Password |-> "", Account |-> "", Users |-> << >>],
      [Username |-> "", Password |-> "", Account |-> "ACME", Users |-> << >>],
      [Username |-> "", Password |-> "", Account |-> "GHOST", Users |-> << >>],
      [Username |-> "alice", Password |-> "s3cret", Account |-> "ACME",
       Users |-> << UserEntry("alice", "wrong", Nil) >>],
      [Username |-> "", Password |-> "", Account |-> "",
       Users |-> << UserEntry("bob", "s3cret", Nil),
                    UserEntry("alice", "s3cret", Some(DeclaredAccount("ACME"))),
                    UserEntry("alice", "wrong", Nil) >>] }

\* The four kinds of connection, custom authenticators, and the cluster,
\* gateway and leafnode sections.
StartKinds ==
    /\ scenario = "down"
    /\ \E ca \in Authenticators, ra \in Authenticators, pa \in PeerAuths, la \in LeafAuths,
       top \in {Nil, Some(<< UserEntry("alice", "s3cret", Nil) >>)} :
      NewServer("kinds",
                [DefaultOptions EXCEPT !.CustomClientAuthentication = ca,
                    !.CustomRouterAuthentication = ra, !.Cluster = pa, !.Gateway = pa,
                    !.LeafNode = la, !.Users = top],
                {gacc, sysAccount, acmeAccount})

ConnectKinds(c) ==
    /\ scenario = "kinds" /\ c = "c1"
    /\ conn[c].pc = "absent"
    /\ \E kind \in {CLIENT, ROUTER, GATEWAY, LEAF},
          u \in {"", "alice", "bob"}, p \in {"", "s3cret", "wrong"},
          tls \in {Nil, Some([PeerCertificates |-> << DecoyCertificate >>])} :
         Arrive(c, kind, FALSE, ConnectOpts(u, p, "", EmptyJWT, "", EmptySig), tls)

\* what each of two concurrent connections sends
RacingConnects ==
    { ConnectOpts("alice", "s3cret", "", EmptyJWT, "", EmptySig),
      ConnectOpts("alice", "wrong", "", EmptyJWT, "", EmptySig),
      ConnectOpts("", "", "", EmptyJWT, "UNEW", EmptySig),
      ConnectOpts("", "", "", JWT(TRUE, FALSE, Claims("ACME", "", "UKEY", FALSE)), "", EmptySig),
      ConnectOpts("", "", "", JWT(FALSE, FALSE, NoClaims), "", EmptySig) }

\* Two connections authenticate concurrently.
StartConcurrent ==
    /\ scenario = "down"
    /\ \E o \in { [DefaultOptions EXCEPT !.Users = Some(<< UserEntry("alice", "s3cret", Nil) >>),
                                      !.SystemAccount = SystemAccountName],
               [DefaultOptions EXCEPT !.TrustedOperators = << OperatorKey >>,
                                      !.SystemAccount = SystemAccountName,
                                      !.Username = "alice", !.Password = "s3cret",
                                      !.Authorization = "tok"],
               [DefaultOptions EXCEPT !.TrustedOperators = << OperatorKey >>,
                                      !.Users = Some(<< UserEntry("alice", "s3cret", Nil) >>),
                                      !.NoAuthUser = "alice"],
               [DefaultOptions EXCEPT !.TrustedOperators = << OperatorKey >>,
                                      !.NoAuthUser = "alice"],
               [DefaultOptions EXCEPT !.Users = Some(<< >>), !.NoAuthUser = "alice"],
               DefaultOptions } :
      NewServer("concurrent", o, {gacc, sysAccount, acmeAccount})

ConnectConcurrent(c) ==
    /\ scenario = "concurrent"
    /\ conn[c].pc = "absent"
    /\ \E kind \in {CLIENT, LEAF}, co \in RacingConnects :
         Arrive(c, kind, FALSE,
                [co EXCEPT !.Sig = IF co.Nkey = "" THEN EmptySig
                                   ELSE Sig("rawurl", co.Nkey, NonceOf(c))],
                Nil)

\* Options a running server is reconfigured with: users and nkeys with and
\* without declared accounts, a static token in clear and one stored as the
\* bcrypt hash of the empty string, a custom client authenticator,
\* no_auth_user with and without its user, and no authorization at all.
ReloadConfigs ==
    { [DefaultOptions EXCEPT !.Users = Some(<< UserEntry("alice", "s3cret", Nil) >>)],
      [DefaultOptions EXCEPT
          !.Users = Some(<< UserEntry("bob", "s3cret", Some(DeclaredAccount("ACME"))) >>),
          !.Nkeys = Some(<< [NkeyEntry("UKEY") EXCEPT !.Account = Some(DeclaredAccount("GHOST"))],
                            [NkeyEntry("UNEW") EXCEPT !.Account = Some(DeclaredAccount("ACME"))] >>),
          !.NoAuthUser = "bob"],
      [DefaultOptions EXCEPT !.Nkeys = Some(<< NkeyEntry("UKEY") >>)],
      [DefaultOptions EXCEPT !.Authorization = "tok"],
      [DefaultOptions EXCEPT !.Authorization = BcryptOf("")],
      [DefaultOptions EXCEPT !.CustomClientAuthentication = Some([allow |-> {"bob"}])],
      [DefaultOptions EXCEPT !.Users = Some(<< UserEntry("alice", "s3cret", Nil) >>),
                             !.NoAuthUser = "bob"],
      DefaultOptions }

\* A server that is reconfigured before connections arrive.
StartReload ==
    /\ scenario = "down"
    /\ \E o \in ReloadConfigs : NewServer("reload", o, {gacc, sysAccount, acmeAccount})

\* A reconfiguration: the new options object is installed and
\* configureAuthorization runs on the server as it is, tables included.
\* Options validateAuth refuses are not installed.
Reload ==
    /\ scenario = "reload"
    /\ \A c \in Conns : conn[c].pc = "absent"
    /\ \E o \in ReloadConfigs :
         /\ validateAuth(o)
         /\ Install("reload", o, accounts,
                    configureAuthorization(o, trustedKeys, users, nkeys, accounts))

ConnectReload(c) ==
    /\ scenario = "reload" /\ c = "c1"
    /\ conn[c].pc = "absent"
    /\ \E kind \in {CLIENT, LEAF}, u \in {"", "alice", "bob"}, p \in {"", "s3cret"},
          t \in {"", "tok"}, nk \in {"", "UKEY"} :
         Arrive(c, kind, FALSE,
                ConnectOpts(u, p, t, EmptyJWT, nk,
                            IF nk = "" THEN EmptySig ELSE Sig("rawurl", nk, NonceOf(c))),
                Nil)

\* Before NewServer: no options, no tables, only the global account, and
\* no connection.
NoServer ==
    /\ scenario = "down"
    /\ opts = DefaultOptions
    /\ trustedKeys = Nil
    /\ users = Nil
    /\ nkeys = Nil
    /\ AuthRequired = FALSE
    /\ websocket = [authRequired |-> FALSE, users |-> Nil, nkeys |-> Nil]
    /\ accounts = {gacc}
    /\ mu = NoHolder
    /\ conn = [c \in Conns |-> AbsentConn]

Init ==
    /\ NoServer
    /\ mem = [m |-> NoObjects, src |-> 0, copy |-> 0, cloned |-> FALSE, last |-> ""]

Next ==
    \/ StartUsers
    \/ StartTLSMap
    \/ StartNkeys
    \/ StartJWT
    \/ StartWebsocket
    \/ StartKinds
    \/ StartConcurrent
    \/ StartReload
    \/ Reload
    \/ \E c \in Conns :
        \/ ConnectUsers(c)
        \/ ConnectTLSMap(c)
        \/ ConnectNkeys(c)
        \/ ConnectJWT(c)
        \/ ConnectWebsocket(c)
        \/ ConnectKinds(c)
        \/ ConnectConcurrent(c)
        \/ ConnectReload(c)
        \/ IsClientAuthorized(c)
        \/ IsRouterAuthorized(c)
        \/ IsGatewayAuthorized(c)
        \/ IsLeafNodeAuthorized(c)
        \/ Lock(c)
        \/ Gate(c)
        \/ DecodeJWT(c)
        \/ Candidates(c)
        \/ JWTAccount(c)
        \/ JWTSig(c)
        \/ JWTRegister(c)
        \/ LoadGenerated(c)
        \/ GenerateAccount(c)
        \/ NkeySig(c)
        \/ Password(c)
        \/ Static(c)

Spec == Init /\ [][Next]_vars

\* processClientOrLeafAuthentication(c), as the steps of connection c
processClientOrLeafAuthentication(c) ==
    \/ Lock(c)
    \/ Gate(c)
    \/ DecodeJWT(c)
    \/ Candidates(c)
    \/ JWTAccount(c)
    \/ JWTSig(c)
    \/ JWTRegister(c)
    \/ LoadGenerated(c)
    \/ GenerateAccount(c)
    \/ NkeySig(c)
    \/ Password(c)
    \/ Static(c)

\* Two connections that contend for s.mu, under options that between them
\* open every return of lines 395-477: a users and an nkeys table, a users
\* table keyed by certificate identity, a trusted operator with a system
\* account, a static token, and no authorization at all.
StartMutex ==
    /\ scenario = "down"
    /\ \E o \in { [DefaultOptions EXCEPT
                      !.Users = Some(<< UserEntry("alice", "s3cret", Nil) >>),
                      !.Nkeys = Some(<< NkeyEntry("UKEY") >>)],
                  [DefaultOptions EXCEPT
                      !.Users = Some(<< UserEntry("alice", "s3cret", Nil) >>),
                      !.TLSMap = TRUE],
                  [DefaultOptions EXCEPT !.TrustedOperators = << OperatorKey >>,
                                         !.SystemAccount = SystemAccountName],
                  [DefaultOptions EXCEPT !.Authorization = "tok"],
                  DefaultOptions } :
         NewServer("mutex", o, {gacc, sysAccount, acmeAccount})

\* what each of the two sends: a known and an unknown username, an nkey
\* with its signature, a token, nothing, and user JWTs that do not decode,
\* are blocked, are bearer tokens or need a signature; the one that sends
\* nothing presents a certificate no user is named after
ConnectMutex(c) ==
    /\ scenario = "mutex"
    /\ conn[c].pc = "absent"
    /\ \E kind \in {CLIENT, LEAF},
          co \in { ConnectOpts("alice", "s3cret", "", EmptyJWT, "", EmptySig),
                   ConnectOpts("bob", "s3cret", "", EmptyJWT, "", EmptySig),
                   ConnectOpts("", "", "", EmptyJWT, "UNEW", Sig("rawurl", "UNEW", NonceOf(c))),
                   ConnectOpts("", "", "tok", EmptyJWT, "", EmptySig),
                   ConnectOpts("", "", "", EmptyJWT, "", EmptySig),
                   ConnectOpts("", "", "", JWT(FALSE, FALSE, NoClaims), "", EmptySig),
                   ConnectOpts("", "", "", JWT(TRUE, TRUE, Claims("ACME", "", "UKEY", TRUE)),
                               "", EmptySig),
                   ConnectOpts("", "", "", JWT(TRUE, FALSE, Claims("ACME", "", "UKEY", TRUE)),
                               "", EmptySig),
                   ConnectOpts("", "", "", JWT(TRUE, FALSE, Claims("ACME", "", "UKEY", FALSE)),
                               "", EmptySig) } :
         Arrive(c, kind, FALSE, co,
                IF co.Username = "" /\ co.Token = "" /\ co.Nkey = "" /\ ~co.JWT.present
                THEN Some([PeerCertificates |-> << DecoyCertificate >>])
                ELSE Nil)

NextMutex ==
    \/ StartMutex
    \/ \E c \in Conns :
        \/ ConnectMutex(c)
        \/ IsClientAuthorized(c)
        \/ IsLeafNodeAuthorized(c)
        \/ processClientOrLeafAuthentication(c)

\* Each connection is served by a goroutine of its own, which the scheduler
\* keeps running: a connection that can take a step of the check, the
\* acquisition of a free s.mu included, eventually takes one.
MutexSpec ==
    /\ Init
    /\ [][NextMutex]_vars
    /\ \A c \in Conns : WF_vars(processClientOrLeafAuthentication(c))

-----------------------------------------------------------------------------
(* The Permissions of an options entry, its clone and the writes to both:  *)
(* what buildNkeysAndUsersFromOptions does to one entry, beside what the   *)
(* owner of the options object and the owner of the table may do later.    *)

\* u.Permissions of an options entry u: nil, or publish, subscribe and
\* response each nil or set, with nil, empty and filled allow and deny lists
\* and zero and non-zero response counters
PermissionsValues ==
    {Nil} \cup
    { Some([Publish |-> pb, Subscribe |-> sb, Response |-> r]) :
        pb \in { Nil, Some([Allow |-> Nil, Deny |-> Nil]),
                 Some([Allow |-> Some(<< >>), Deny |-> Nil]),
                 Some([Allow |-> Nil, Deny |-> Some(<< >>)]),
                 Some([Allow |-> Some(<< "a.>" >>), Deny |-> Some(<< "a.b", "a.c" >>)]) },
        sb \in { Nil, Some([Allow |-> Some(<< "b.>" >>), Deny |-> Nil]) },
        r \in { Nil, Some([MaxMsgs |-> 0, Expires |-> 0]), Some([MaxMsgs |-> 5, Expires |-> 0]),
                Some([MaxMsgs |-> 0, Expires |-> 60]), Some([MaxMsgs |-> 5, Expires |-> 60]) } }

\* an options entry with its Permissions in memory, not cloned yet
InitPermissions ==
    /\ NoServer
    /\ \E v \in PermissionsValues :
         mem = [m |-> NewPermissions(NoObjects, v).m, src |-> NewPermissions(NoObjects, v).a,
                copy |-> 0, cloned |-> FALSE, last |-> ""]

\* an operation on the two objects: the memory becomes m, the clone copy
MemStep(m, copy, cloned, last) ==
    /\ mem' = [m |-> m, src |-> mem.src, copy |-> copy, cloned |-> cloned, last |-> last]
    /\ UNCHANGED << opts, trustedKeys, users, nkeys, AuthRequired, websocket, scenario,
                    accounts, mu, conn >>

\* copy := u.clone(), as far as the Permissions go
Clone ==
    /\ ~mem.cloned
    /\ MemStep(PermissionsCloneAt(mem.m, mem.src).m, PermissionsCloneAt(mem.m, mem.src).a,
               TRUE, "clone")

\* validateResponsePermissions(copy.Permissions), for a copy that has some
ValidateCopy ==
    /\ mem.cloned /\ mem.copy # 0
    /\ MemStep(validateResponsePermissionsAt(mem.m, mem.copy), mem.copy, TRUE, "validate copy")

\* validateResponsePermissions(u.Permissions) on the options entry itself
Validate ==
    MemStep(validateResponsePermissionsAt(mem.m, mem.src), mem.copy, mem.cloned, "validate")

\* the owner of the table writes to the clone
WriteCopy(w) ==
    /\ mem.cloned
    /\ WriteThrough(mem.m, mem.copy, w) # mem.m
    /\ MemStep(WriteThrough(mem.m, mem.copy, w), mem.copy, TRUE, "write copy")

\* the owner of the options object writes to the entry
WriteSource(w) ==
    /\ WriteThrough(mem.m, mem.src, w) # mem.m
    /\ MemStep(WriteThrough(mem.m, mem.src, w), mem.copy, mem.cloned, "write source")

NextPermissions ==
    \/ Clone
    \/ ValidateCopy
    \/ Validate
    \/ \E w \in Writes : WriteCopy(w)
    \/ \E w \in Writes : WriteSource(w)

PermissionsSpec == InitPermissions /\ [][NextPermissions]_vars

-----------------------------------------------------------------------------
(* Properties of processClientOrLeafAuthentication and checkAuthentication. *)

Done(c) == conn[c].pc = "done"
Accepted(c) == Done(c) /\ conn[c].verdict = "ACCEPTED"
Denied(c) == Done(c) /\ conn[c].verdict = "DENIED"

\* the connection went through processClientOrLeafAuthentication
InLadder(c) == "getAuthOpts" \in conn[c].calls

\* the connection reached the user-JWT path (line 481)
OnJWTPath(c) == Done(c) /\ "LookupAccount" \in conn[c].calls

\* the password compare, the signature verification and the account
\* lookup/resolver calls
LongOperations ==
    {"comparePasswords", "Verify", "LookupAccount", "lookupAccount",
     "verifyAccountClaims", "registerAccount", "updateAccountWithClaimJWT"}

\* the positions of the ladder at which a connection is about to perform one
LongOperationSites ==
    {"LookupAccount", "VerifyJWTSig", "GenerateAccount", "VerifyNkeySig",
     "ComparePassword", "StaticOrLeaf"}

\* C1: no connection performs a password compare, a signature verification
\* over the nonce or an account lookup/resolver call between its s.mu.Lock()
\* and its s.mu.Unlock(), and a connection about to perform one does not hold
\* the server mutex.
C1_LongOperationsOutsideMutex ==
    \A c \in Conns :
        /\ conn[c].held \cap LongOperations = {}
        /\ conn[c].pc \in LongOperationSites => mu # c

\* a second connection holds the mutex while the first is at its password
\* compare
C1_SecondConnectionAcquires ==
    \E c, d \in Conns :
        /\ c # d
        /\ conn[c].pc = "ComparePassword"
        /\ mu = d
        /\ conn[d].pc = "Candidates"

\* C2: the decoding of the user JWT and the claims validator never run
\* between the connection's s.mu.Lock() and its s.mu.Unlock().
C2_JWTValidationOutsideMutex ==
    \A c \in Conns : conn[c].held \cap {"DecodeUserClaims", "Validate"} = {}

\* the account a user JWT names: issuer_account if set, else issuer
IssuingAccount(juc) ==
    accountsLoad(accounts, IF juc.IssuerAccount # "" THEN juc.IssuerAccount ELSE juc.Issuer)

\* the five conditions on the issuing account of the user JWT juc
AccountChecksPass(juc) ==
    /\ IssuingAccount(juc) # Nil
    /\ \E i \in 1..SliceLen(trustedKeys) :
          Val(trustedKeys)[i] = Val(IssuingAccount(juc)).Issuer
    /\ juc.IssuerAccount # "" => juc.Issuer \in Val(IssuingAccount(juc)).signingKeys
    /\ ~Val(IssuingAccount(juc)).expired
    /\ juc.Subject \notin Val(IssuingAccount(juc)).revoked

Registration == {"RegisterNkeyUser", "accountConnectEvent", "checkExpiration"}

\* C3: on the user-JWT path a connection is accepted only if the issuing
\* account is found, its issuer is a trusted operator key, it lists the JWT
\* issuer among its signing keys when issuer_account is set, it is not
\* expired and it does not revoke the subject; when one of these fails the
\* verdict is deny and register_nkey_user, the connect event and
\* check_expiration were never invoked.
C3_JWTAccountChecks ==
    \A c \in Conns :
        OnJWTPath(c) /\ ~AccountChecksPass(Val(conn[c].juc))
            => /\ conn[c].verdict = "DENIED"
               /\ conn[c].calls \cap Registration = {}
               /\ conn[c].regNkey = Nil

\* a JWT issued by a signing key of its account is accepted and registered
C3_SigningKeyJWTAccepted ==
    \E c \in Conns :
        /\ Accepted(c)
        /\ OnJWTPath(c)
        /\ Val(conn[c].juc).IssuerAccount = "ACME"
        /\ Val(conn[c].juc).Issuer = "SK"
        /\ Registration \subseteq conn[c].calls

\* the CONNECT signature is empty, does not decode as base64, or does not
\* verify over the nonce with pub as the public key
BadSignature(c, pub) ==
    \/ conn[c].opts.Sig = EmptySig
    \/ conn[c].opts.Sig.enc \notin {"rawurl", "std"}
    \/ conn[c].opts.Sig.key # pub
    \/ conn[c].opts.Sig.nonce # conn[c].nonce

\* C4: on the user-JWT path a bearer token is accepted without any CONNECT
\* signature (the signature is not verified, and a denial comes from the
\* account checks or from a failed registration), and is still denied when
\* the account is expired or revokes the subject; a JWT that is not a bearer
\* token is denied whenever the signature is empty, not decodable, or does
\* not verify over the nonce with the subject as public key.
C4_BearerTokenAndSignature ==
    \A c \in Conns :
        OnJWTPath(c) =>
            IF Val(conn[c].juc).BearerToken
            THEN /\ "Verify" \notin conn[c].calls
                 /\ AccountChecksPass(Val(conn[c].juc)) /\ Denied(c)
                       => "RegisterNkeyUser" \in conn[c].calls
                 /\ ~AccountChecksPass(Val(conn[c].juc)) => Denied(c)
            ELSE BadSignature(c, Val(conn[c].juc).Subject) => Denied(c)

\* a bearer token is accepted with an empty CONNECT signature
C4_BearerAcceptedWithoutSignature ==
    \E c \in Conns :
        /\ Accepted(c)
        /\ OnJWTPath(c)
        /\ Val(conn[c].juc).BearerToken
        /\ conn[c].opts.Sig = EmptySig

\* C5: with trusted operator keys configured, a connection of the ladder
\* whose CONNECT has no JWT, and lacks an nkey or meets no configured system
\* account, is denied at the gate: no table is consulted, no password or
\* token compared and nothing registered, whatever username, password or
\* token it carries and whatever no_auth_user names.
C5_TrustedModeNeedsJWTOrNkey ==
    \A c \in Conns :
        /\ Done(c) /\ InLadder(c) /\ trustedKeys # Nil
        /\ ~conn[c].opts.JWT.present
        /\ conn[c].opts.Nkey = "" \/ opts.SystemAccount = ""
        => /\ conn[c].verdict = "DENIED"
           /\ conn[c].calls = {"getAuthOpts"}
           /\ conn[c].regUser = Nil /\ conn[c].regNkey = Nil /\ conn[c].boundAcc = Nil

\* in trusted-operator mode a client that sends the username and password
\* of the options, and no JWT, is denied
C5_StaticCredentialsDeniedInTrustedMode ==
    \E c \in Conns :
        /\ Denied(c) /\ InLadder(c) /\ trustedKeys # Nil
        /\ conn[c].kind = CLIENT
        /\ ~conn[c].opts.JWT.present
        /\ conn[c].opts.Username = "alice" /\ conn[c].auth.username = "alice"
        /\ conn[c].opts.Password = "s3cret" /\ conn[c].auth.password = "s3cret"

CustomChecks == {"CustomClientAuthentication.Check", "CustomRouterAuthentication.Check"}

\* C6: with a custom client authenticator the verdict of a CLIENT connection
\* is the authenticator's Check result and the connection never enters the
\* ladder (no mutex acquisition, no other call); likewise a ROUTER connection
\* with a custom router authenticator; GATEWAY and LEAF connections are
\* never handed to a custom authenticator.
C6_CustomAuthenticatorShortCircuits ==
    \A c \in Conns :
        /\ conn[c].kind = CLIENT /\ opts.CustomClientAuthentication # Nil =>
              /\ conn[c].pc \in {"new", "done"}
              /\ conn[c].nLock = 0 /\ mu # c
              /\ Done(c) =>
                    /\ Accepted(c) <=>
                          conn[c].opts.Username \in Val(opts.CustomClientAuthentication).allow
                    /\ conn[c].calls = {"CustomClientAuthentication.Check"}
        /\ conn[c].kind = ROUTER /\ opts.CustomRouterAuthentication # Nil =>
              /\ conn[c].pc \in {"new", "done"}
              /\ conn[c].nLock = 0 /\ mu # c
              /\ Done(c) =>
                    /\ Accepted(c) <=>
                          conn[c].opts.Username \in Val(opts.CustomRouterAuthentication).allow
                    /\ conn[c].calls = {"CustomRouterAuthentication.Check"}
        /\ conn[c].kind \in {GATEWAY, LEAF} => conn[c].calls \cap CustomChecks = {}

\* the custom authenticator accepts a client whose password the users table
\* would reject
C6_AuthenticatorOverridesUsersTable ==
    \E c \in Conns :
        /\ Accepted(c) /\ conn[c].kind = CLIENT
        /\ opts.CustomClientAuthentication # Nil
        /\ opts.Users # Nil
        /\ conn[c].opts.Username = "alice" /\ conn[c].opts.Password = "wrong"
        /\ conn[c].calls = {"CustomClientAuthentication.Check"}

\* the connection took the multi-user path keyed by the CONNECT username:
\* no TLS map, no user JWT, and no nkey candidate found or generated
OnUsersPath(c) ==
    /\ Done(c) /\ "users[]" \in conn[c].calls
    /\ ~conn[c].auth.tlsMap
    /\ conn[c].juc = Nil
    /\ "accounts.Load" \notin conn[c].calls

\* given is the password stored: given's bcrypt hash, or given itself when
\* stored is no bcrypt hash
PasswordMatches(stored, given) ==
    IF \E p \in Secrets : stored = BcryptOf(p) THEN stored = BcryptOf(given)
    ELSE stored = given

\* the entry of the users option that the table holds under name
ConfiguredUser(ul, name) ==
    ul[LastIndex({i \in 1..Len(ul) : ul[i].Username = name})]

\* C7: on the multi-user path without TLS map, a connection whose username is
\* in the users table is accepted iff the stored password matches the CONNECT
\* password; register_user is invoked with that table entry exactly when the
\* verdict is accept; a non-empty username that is not in the table is
\* denied; the registered user's account is non-null, and is the global
\* account when the options in force configure the user without one.
C7_UsersTablePath ==
    \A c \in Conns :
        OnUsersPath(c) =>
            LET tbl  == Val(conn[c].auth.users)
                name == conn[c].opts.Username
            IN  /\ name # ""
                /\ name \in DOMAIN tbl =>
                      /\ Accepted(c) <=> PasswordMatches(tbl[name].Password,
                                                         conn[c].opts.Password)
                      /\ Accepted(c) => /\ conn[c].regUser = Some(tbl[name])
                                        /\ "RegisterUser" \in conn[c].calls
                      /\ Denied(c) => /\ conn[c].regUser = Nil
                                      /\ "RegisterUser" \notin conn[c].calls
                /\ name \notin DOMAIN tbl =>
                      /\ Denied(c)
                      /\ conn[c].regUser = Nil /\ "RegisterUser" \notin conn[c].calls
                /\ conn[c].regUser # Nil =>
                      /\ Val(conn[c].regUser).Account # Nil
                      /\ /\ ~conn[c].ws /\ opts.Users # Nil
                         /\ \E i \in 1..Len(Val(opts.Users)) : Val(opts.Users)[i].Username = name
                         /\ ConfiguredUser(Val(opts.Users), name).Account = Nil
                         => Val(conn[c].regUser).Account = Some(gacc)

\* alice, configured without account, connects with her password beside a
\* user stored with a bcrypt hash, and is registered in the global account
C7_UserRegistered ==
    \E c \in Conns :
        /\ OnUsersPath(c) /\ Accepted(c)
        /\ "noAuthUser" \notin conn[c].calls
        /\ conn[c].opts.Username = "alice"
        /\ conn[c].opts.Password = "s3cret"
        /\ "bob" \in DOMAIN Val(conn[c].auth.users)
        /\ Val(conn[c].regUser).Account = Some(gacc)
        /\ "RegisterUser" \in conn[c].calls

\* C8: with a users table, no TLS map and no trusted operators, a CLIENT
\* connection whose CONNECT has no username and no nkey, where no_auth_user is
\* a key of the effective users table, is accepted and registered as that
\* user, whatever the form of its stored password.
C8_NoAuthUserAccepted ==
    \A c \in Conns :
        /\ Done(c) /\ "noAuthUser" \in conn[c].calls
        /\ trustedKeys = Nil /\ ~conn[c].auth.tlsMap
        /\ conn[c].opts.Nkey = ""
        /\ conn[c].auth.noAuthUser \in DOMAIN Val(conn[c].auth.users)
        => /\ Accepted(c)
           /\ conn[c].regUser = Some(Val(conn[c].auth.users)[conn[c].auth.noAuthUser])

\* the CONNECT signature is non-empty, decodes as base64 (raw-URL or
\* standard) and verifies over the nonce with pub
GoodSignature(c, pub) ==
    /\ conn[c].opts.Sig # EmptySig
    /\ conn[c].opts.Sig.enc \in {"rawurl", "std"}
    /\ conn[c].opts.Sig.key = pub
    /\ conn[c].opts.Sig.nonce = conn[c].nonce

\* C9: when the credential set has an nkeys table and the CONNECT carries an
\* nkey, the users table, the TLS map and no_auth_user are not consulted; a
\* connection with an nkey candidate (found in the table, or generated) is
\* accepted only if the signature is non-empty, decodes and verifies over the
\* nonce with the CONNECT nkey; an nkey absent from the table is denied
\* outright (nothing else consulted) exactly when no system account is
\* configured.
C9_NkeyPath ==
    \A c \in Conns :
        /\ Done(c) /\ InLadder(c) /\ conn[c].auth.nkeys # Nil /\ conn[c].opts.Nkey # ""
              => /\ "nkeys[]" \in conn[c].calls
                 /\ conn[c].calls \cap {"users[]", "checkClientTLSCertSubject", "noAuthUser"} = {}
                 /\ conn[c].user = Nil
                 /\ conn[c].opts.Nkey \notin DOMAIN Val(conn[c].auth.nkeys) =>
                       (opts.SystemAccount = ""
                          <=> Denied(c) /\ conn[c].calls = {"getAuthOpts", "nkeys[]"})
        /\ Accepted(c) /\ conn[c].juc = Nil /\ conn[c].nkey # Nil
              => /\ GoodSignature(c, conn[c].opts.Nkey)
                 /\ conn[c].regNkey = conn[c].nkey

\* beside a users table with alice in it, a connection that names alice and
\* carries an nkey of the nkeys table is accepted on its signature, in
\* standard base64, without the users table being consulted
C9_NkeyAccepted ==
    \E c \in Conns :
        /\ Accepted(c) /\ "nkeys[]" \in conn[c].calls
        /\ conn[c].opts.Nkey = "UKEY"
        /\ conn[c].opts.Sig.enc = "std"
        /\ conn[c].auth.users # Nil
        /\ conn[c].opts.Username = "alice"
        /\ Val(conn[c].regNkey).Account = Some(gacc)

\* the identities a certificate carries
HasIdentity(cert) ==
    \/ Len(cert.EmailAddresses) > 0
    \/ Len(cert.DNSNames) > 0
    \/ Len(cert.URIs) > 0
    \/ cert.RawSubject # Nil /\ getTLSAuthDCs(Val(cert.RawSubject)) # ""
    \/ cert.Subject.str # ""

\* C10: with a users table and tls_map, a connection whose first peer
\* certificate carries no email and a DNS SAN that is a key of the users
\* table, the first such key a user with empty password, and whose CONNECT
\* password is empty, is accepted with the CONNECT username overwritten by
\* that SAN; and for every first peer certificate with at least one identity
\* the extractor presents an identity to the predicate.
C10_TLSMapBySAN ==
    \A c \in Conns :
        /\ Done(c) /\ "checkClientTLSCertSubject" \in conn[c].calls
        /\ conn[c].tls # Nil
        /\ Len(Val(conn[c].tls).PeerCertificates) > 0
        => LET cert == Val(conn[c].tls).PeerCertificates[1]
               tbl  == IF conn[c].auth.users = Nil THEN << >> ELSE Val(conn[c].auth.users)
               hits == {i \in 1..Len(cert.DNSNames) : cert.DNSNames[i] \in DOMAIN tbl}
               san  == cert.DNSNames[CHOOSE i \in hits : \A j \in hits : i <= j]
           IN  /\ HasIdentity(cert) => Len(conn[c].tried) > 0
               /\ /\ conn[c].kind = CLIENT /\ InLadder(c)
                  /\ Len(cert.EmailAddresses) = 0 /\ hits # {}
                  /\ tbl[san].Password = "" /\ conn[c].opts.Password = ""
                  => Accepted(c) /\ conn[c].opts.Username = san

\* the candidate identities of a certificate in the order email addresses,
\* DNS SANs, URIs (only without emails and SANs), RDN sequence with domain
\* components, subject distinguished name
OrderedIdentities(cert) ==
    cert.EmailAddresses \o cert.DNSNames
      \o (IF Len(cert.EmailAddresses) = 0 /\ Len(cert.DNSNames) = 0 THEN cert.URIs ELSE << >>)
      \o (IF cert.RawSubject # Nil /\ getTLSAuthDCs(Val(cert.RawSubject)) # ""
          THEN << JoinStrings(<< cert.Subject.rdn, getTLSAuthDCs(Val(cert.RawSubject)) >>, ",") >>
          ELSE << >>)
      \o << cert.Subject.str >>

\* the identities the predicate handed to the extractor accepts
PredicateAccepts(c) ==
    IF conn[c].kind = ROUTER THEN {opts.Cluster.Username}
    ELSE IF conn[c].kind = GATEWAY THEN {opts.Gateway.Username}
    ELSE IF conn[c].auth.users = Nil THEN {}
    ELSE DOMAIN Val(conn[c].auth.users)

\* what the extractor returned to its caller
ExtractorReturned(c) ==
    IF conn[c].kind \in {ROUTER, GATEWAY} THEN Accepted(c) ELSE conn[c].user # Nil

\* C11: for a first peer certificate with at least one identity, the
\* extractor presents the identities in the order emails, DNS SANs, URIs
\* (only when there are neither emails nor SANs), RDN sequence with domain
\* components, subject; it stops at the first identity the predicate
\* accepts and returns true; it returns false exactly when the predicate
\* rejected every identity presented, and then the RDN/DC and subject
\* identities were presented too.
C11_IdentitiesInOrder ==
    \A c \in Conns :
        /\ "checkClientTLSCertSubject" \in conn[c].calls
        /\ conn[c].tls # Nil
        /\ Len(Val(conn[c].tls).PeerCertificates) > 0
        /\ HasIdentity(Val(conn[c].tls).PeerCertificates[1])
        => LET all == OrderedIdentities(Val(conn[c].tls).PeerCertificates[1])
               tr  == conn[c].tried
               n   == Len(conn[c].tried)
           IN  /\ n <= Len(all) /\ tr = SubSeq(all, 1, n)
               /\ \A i \in 1..(n - 1) : tr[i] \notin PredicateAccepts(c)
               /\ ExtractorReturned(c) <=> (n > 0 /\ tr[n] \in PredicateAccepts(c))
               /\ ~ExtractorReturned(c) => tr = all

\* the section of the options that authorizes a ROUTER or a GATEWAY
PeerSection(c) == IF conn[c].kind = ROUTER THEN opts.Cluster ELSE opts.Gateway

\* C12: a ROUTER (no custom router authenticator) or GATEWAY connection is
\* accepted when the section's username is empty; else, under tls_map, iff
\* the extractor was presented an identity equal to the section's username,
\* the CONNECT username and password playing no part; else iff the CONNECT
\* username equals the section's and the password compare succeeds. The
\* ladder and its mutex are never entered.
C12_RouterGatewayAuthorization ==
    \A c \in Conns :
        /\ Done(c) /\ conn[c].kind \in {ROUTER, GATEWAY}
        /\ conn[c].kind = ROUTER => opts.CustomRouterAuthentication = Nil
        => /\ conn[c].nLock = 0 /\ ~InLadder(c)
           /\ Accepted(c) <=>
                IF PeerSection(c).Username = "" THEN TRUE
                ELSE IF PeerSection(c).TLSMap
                THEN \E i \in 1..Len(conn[c].tried) : conn[c].tried[i] = PeerSection(c).Username
                ELSE /\ conn[c].opts.Username = PeerSection(c).Username
                     /\ PasswordMatches(PeerSection(c).Password, conn[c].opts.Password)
           /\ PeerSection(c).Username # "" /\ PeerSection(c).TLSMap
              => "comparePasswords" \notin conn[c].calls
           /\ PeerSection(c).Username = "" => conn[c].calls = {}

\* a gateway is accepted on its certificate's email address although its
\* CONNECT names another user with a wrong password
C12_GatewayAcceptedByCertificate ==
    \E c \in Conns :
        /\ Accepted(c) /\ conn[c].kind = GATEWAY
        /\ opts.Gateway.TLSMap /\ opts.Gateway.Username = "a@x.io"
        /\ conn[c].tried = << "a@x.io" >>
        /\ conn[c].opts.Username = "bob" /\ conn[c].opts.Password = "wrong"

\* the connection is bound to the account called name, to the global
\* account when name is empty
BoundTo(c, name) ==
    IF name = "" THEN conn[c].boundAcc = Some(gacc)
    ELSE \E a \in accounts : a.Name = name /\ conn[c].boundAcc = Some(a)

\* the first entry of leafnode.users with the CONNECT username
FirstLeafUser(c) ==
    opts.LeafNode.Users[CHOOSE i \in 1..Len(opts.LeafNode.Users) :
        /\ opts.LeafNode.Users[i].Username = conn[c].opts.Username
        /\ \A j \in 1..(i - 1) : opts.LeafNode.Users[j].Username # conn[c].opts.Username]

\* the connection reached the last dispatch of the ladder (line 634)
AtLeafBind(c) ==
    /\ conn[c].kind = LEAF /\ Done(c) /\ InLadder(c)
    /\ "registerLeafWithAccount" \in conn[c].calls

\* the first two branches of the LEAF dispatch: the leafnode username, then
\* leafnode.users; the ladder only without both, and its last dispatch only
\* without a JWT, nkey or user candidate
LeafDispatch ==
    \A c \in Conns :
        Done(c) /\ conn[c].kind = LEAF
        => /\ opts.LeafNode.Username # ""
              => /\ ~InLadder(c) /\ conn[c].nLock = 0
                 /\ "LeafNode.Users" \notin conn[c].calls
                 /\ Accepted(c) <=>
                      /\ conn[c].opts.Username = opts.LeafNode.Username
                      /\ PasswordMatches(opts.LeafNode.Password, conn[c].opts.Password)
                      /\ BoundTo(c, opts.LeafNode.Account)
           /\ opts.LeafNode.Username = "" /\ Len(opts.LeafNode.Users) > 0
              => /\ ~InLadder(c) /\ conn[c].nLock = 0
                 /\ IF \A i \in 1..Len(opts.LeafNode.Users) :
                          opts.LeafNode.Users[i].Username # conn[c].opts.Username
                    THEN Denied(c)
                    ELSE Accepted(c) <=>
                           /\ PasswordMatches(FirstLeafUser(c).Password, conn[c].opts.Password)
                           /\ BoundTo(c, IF FirstLeafUser(c).Account = Nil THEN ""
                                         ELSE Val(FirstLeafUser(c).Account).Name)
           /\ InLadder(c) => opts.LeafNode.Username = "" /\ Len(opts.LeafNode.Users) = 0
           /\ AtLeafBind(c)
              => conn[c].juc = Nil /\ conn[c].nkey = Nil /\ conn[c].user = Nil

\* C13 as stated: the LEAF dispatch, and a LEAF that reaches the last
\* dispatch of the ladder is bound to leafnode.account (the global account
\* when empty) and accepted.
C13_LeafAlwaysBoundAndAccepted ==
    /\ LeafDispatch
    /\ \A c \in Conns :
        AtLeafBind(c) => Accepted(c) /\ BoundTo(c, opts.LeafNode.Account)

\* C13, amended: the LEAF dispatch, and a LEAF that reaches the last
\* dispatch of the ladder is accepted iff binding it to leafnode.account
\* (the global account when empty) succeeds: it is denied when the account
\* cannot be looked up or the registration fails. A LEAF accepted by the
\* ladder with auth required and no candidate is so bound.
C13_LeafDispatchPrecedence ==
    /\ LeafDispatch
    /\ \A c \in Conns :
        /\ AtLeafBind(c)
           => /\ Accepted(c) <=> BoundTo(c, opts.LeafNode.Account)
              /\ (\A a \in accounts : a.Name # opts.LeafNode.Account)
                 /\ opts.LeafNode.Account # "" => Denied(c)
        /\ /\ conn[c].kind = LEAF /\ Accepted(c) /\ InLadder(c)
           /\ conn[c].calls # {"getAuthOpts"}
           /\ conn[c].juc = Nil /\ conn[c].nkey = Nil /\ conn[c].user = Nil
           => AtLeafBind(c)

\* a LEAF without credentials is bound to the leafnode account by the ladder
C13_LeafBoundByLadder ==
    \E c \in Conns :
        /\ AtLeafBind(c) /\ Accepted(c)
        /\ opts.LeafNode.Account = "ACME"
        /\ conn[c].boundAcc = Some(acmeAccount)
        /\ conn[c].opts.Username = ""

\* the selector returned auth_required = false to connection c: the ladder
\* accepted at once, with nothing selected
NotRequiredReturned(c) ==
    Accepted(c) /\ conn[c].calls = {"getAuthOpts"} /\ conn[c].auth = ZeroAuthOpts

\* C14: getAuthOpts returns auth_required = false iff top-level auth is not
\* required and the connection is not WebSocket or WebSocket auth is not
\* required. Otherwise, for a non-WebSocket connection the selected set is
\* the global one in every field; for a WebSocket connection no_auth_user
\* and tls_map come from the WebSocket section when set there, else from the
\* top level, and username, password, token, users and nkeys all come from
\* the WebSocket section when the WebSocket subsystem requires auth, else all
\* from the global configuration.
C14_CredentialSelector ==
    \A c \in Conns :
        InLadder(c)
        => IF ~AuthRequired /\ (~conn[c].ws \/ ~websocket.authRequired)
           THEN NotRequiredReturned(c)
           ELSE /\ ~NotRequiredReturned(c)
                /\ ~conn[c].ws
                   => conn[c].auth =
                        [username |-> opts.Username, password |-> opts.Password,
                         token |-> opts.Authorization, noAuthUser |-> opts.NoAuthUser,
                         tlsMap |-> opts.TLSMap, users |-> users, nkeys |-> nkeys]
                /\ conn[c].ws
                   => /\ conn[c].auth.noAuthUser =
                           IF opts.Websocket.NoAuthUser # "" THEN opts.Websocket.NoAuthUser
                           ELSE opts.NoAuthUser
                      /\ conn[c].auth.tlsMap = (opts.Websocket.TLSMap \/ opts.TLSMap)
                      /\ << conn[c].auth.username, conn[c].auth.password, conn[c].auth.token,
                            conn[c].auth.users, conn[c].auth.nkeys >> =
                           IF websocket.authRequired
                           THEN << opts.Websocket.Username, opts.Websocket.Password,
                                   opts.Websocket.Token, websocket.users, websocket.nkeys >>
                           ELSE << opts.Username, opts.Password, opts.Authorization,
                                   users, nkeys >>

\* a WebSocket connection is given the static credentials of the WebSocket
\* section although the top level has its own
C14_WebsocketSetSelected ==
    \E c \in Conns :
        /\ InLadder(c) /\ conn[c].ws
        /\ opts.Username = "alice" /\ opts.Password = "s3cret"
        /\ conn[c].auth.username = "guest" /\ conn[c].auth.password = "wrong"
        /\ conn[c].auth.users = Nil

\* the entry of the nkeys option that the table holds under key
ConfiguredNkeyUser(nl, key) ==
    nl[LastIndex({i \in 1..Len(nl) : nl[i].Nkey = key})]

\* the account a table entry has, given the account its options entry
\* declares: the registry's account of that name, else the declared one,
\* and the global account for none
AccountFor(declared) ==
    IF declared = Nil THEN Some(gacc)
    ELSE IF \E a \in accounts : a.Name = Val(declared).Name
    THEN {a \in accounts : a.Name = Val(declared).Name}
    ELSE declared

\* configureAuthorization built the tables from the options in force
TablesBuilt ==
    /\ scenario \notin {"down", "invalid"}
    /\ opts.CustomClientAuthentication = Nil /\ SliceLen(trustedKeys) = 0
    /\ opts.Nkeys # Nil \/ opts.Users # Nil

\* C15: every entry of the users table and of the nkeys table has an
\* account; when the tables were built from the options in force, the entry
\* of each configured user and nkey points to the registry's account of the
\* declared name, keeps the declared account when the registry has none of
\* that name, and is the global account when none was declared.
C15_EveryEntryHasAccount ==
    /\ users # Nil => \A k \in DOMAIN Val(users) : Val(users)[k].Account # Nil
    /\ nkeys # Nil => \A k \in DOMAIN Val(nkeys) : Val(nkeys)[k].Account # Nil
    /\ TablesBuilt /\ SliceLen(opts.Users) > 0
       => /\ users # Nil
          /\ \A i \in 1..Len(Val(opts.Users)) :
               /\ Val(opts.Users)[i].Username \in DOMAIN Val(users)
               /\ Val(users)[Val(opts.Users)[i].Username].Account =
                    AccountFor(ConfiguredUser(Val(opts.Users),
                                              Val(opts.Users)[i].Username).Account)
    /\ TablesBuilt /\ SliceLen(opts.Nkeys) > 0
       => /\ nkeys # Nil
          /\ \A i \in 1..Len(Val(opts.Nkeys)) :
               /\ Val(opts.Nkeys)[i].Nkey \in DOMAIN Val(nkeys)
               /\ Val(nkeys)[Val(opts.Nkeys)[i].Nkey].Account =
                    AccountFor(ConfiguredNkeyUser(Val(opts.Nkeys),
                                                  Val(opts.Nkeys)[i].Nkey).Account)

\* a reconfigurable server with a user in the registry's account of the
\* declared name and an nkey that keeps a declared account the registry
\* does not have
C15_DeclaredAccountsResolved ==
    /\ scenario = "reload" /\ users # Nil /\ nkeys # Nil
    /\ Val(users)["bob"].Account = Some(acmeAccount)
    /\ Val(nkeys)["UKEY"].Account = Some(DeclaredAccount("GHOST"))
    /\ Val(nkeys)["UNEW"].Account = Some(acmeAccount)

\* C16: in every state of a started server, no entry from an earlier
\* configuration remains in the active tables: the users table holds only
\* usernames of the Users of the options in force, the nkeys table only
\* keys of their Nkeys, and a table is nil when the options have no such
\* entries.
C16_NoEntryFromEarlierConfiguration ==
    scenario \notin {"down", "invalid"}
    => /\ users # Nil
          => /\ SliceLen(opts.Users) > 0
             /\ \A k \in DOMAIN Val(users) :
                  \E i \in 1..Len(Val(opts.Users)) : Val(opts.Users)[i].Username = k
       /\ nkeys # Nil
          => /\ SliceLen(opts.Nkeys) > 0
             /\ \A k \in DOMAIN Val(nkeys) :
                  \E i \in 1..Len(Val(opts.Nkeys)) : Val(opts.Nkeys)[i].Nkey = k

\* C17: no step that changes a connection (its arrival, its custom, router,
\* gateway or leaf check, a step of the ladder) changes the server's users
\* table, nkeys table, websocket tables or any of their entries.
C17_TablesUnchangedByAuthentication ==
    [][conn' # conn => users' = users /\ nkeys' = nkeys /\ websocket' = websocket]_vars

\* a connection was given the no_auth_user's name and password, and was
\* accepted, while the table still holds the entry as configured
C17_SubstitutionLeavesEntry ==
    \E c \in Conns :
        /\ Accepted(c) /\ "noAuthUser" \in conn[c].calls
        /\ conn[c].opts.Username = "guest"
        /\ users = Some(BuildUsers(Val(opts.Users), accounts))
        /\ conn[c].regUser = Some(Val(users)["guest"])

\* C20: NewServer is refused with the error of validateAuth exactly for the
\* options whose no_auth_user is non-empty and that configure a trusted
\* operator, or define no users list, or have no user of that name; so
\* never with an empty no_auth_user, nor when it names a configured user
\* and no trusted operator is configured.
C20_ValidateAuthErrors ==
    scenario # "down"
    => (scenario = "invalid" <=>
          /\ opts.NoAuthUser # ""
          /\ \/ Len(opts.TrustedOperators) > 0
             \/ opts.Users = Nil
             \/ \A i \in 1..Len(Val(opts.Users)) :
                  Val(opts.Users)[i].Username # opts.NoAuthUser)

\* options naming a configured user as no_auth_user are refused because a
\* trusted operator is configured
C20_RefusedWithTrustedOperator ==
    /\ scenario = "invalid"
    /\ opts.NoAuthUser = "alice" /\ opts.TrustedOperators = << OperatorKey >>
    /\ opts.Users # Nil /\ Val(opts.Users)[1].Username = "alice"

\* C18: the clone is equal in structure to its source when it is made (a
\* nil pointer stays nil, a nil slice nil, an empty slice empty) and making
\* it leaves the source as it was; afterwards no write to the clone's allow
\* and deny sequences or response fields, nor validateResponsePermissions on
\* the clone, changes the source, and no such write to the source, nor its
\* validation, changes the clone.
C18_CloneDoesNotAlias ==
    [][/\ mem'.last = "clone"
          => /\ PermissionsAt(mem'.m, mem'.copy) = PermissionsAt(mem.m, mem.src)
             /\ PermissionsAt(mem'.m, mem'.src) = PermissionsAt(mem.m, mem.src)
       /\ mem'.last \in {"write copy", "validate copy"}
          => PermissionsAt(mem'.m, mem'.src) = PermissionsAt(mem.m, mem.src)
       /\ mem'.last \in {"write source", "validate"} /\ mem.cloned
          => PermissionsAt(mem'.m, mem'.copy) = PermissionsAt(mem.m, mem.copy)]_vars

\* the clone was validated and written to, and the source still has its
\* allow list, its nil response counters and its deny list
C18_CloneChangedSourceIntact ==
    /\ mem.cloned /\ mem.src # 0 /\ mem.copy # 0
    /\ Val(PermissionsAt(mem.m, mem.copy)).Publish
         = Some([Allow |-> Some(<< "changed" >>), Deny |-> Nil])
    /\ Val(PermissionsAt(mem.m, mem.copy)).Response
         = Some([MaxMsgs |-> DEFAULT_ALLOW_RESPONSE_MAX_MSGS, Expires |-> 60])
    /\ Val(PermissionsAt(mem.m, mem.src)).Publish
         = Some([Allow |-> Some(<< "a.>" >>), Deny |-> Some(<< "a.b", "a.c" >>)])
    /\ Val(PermissionsAt(mem.m, mem.src)).Response = Some([MaxMsgs |-> 0, Expires |-> 60])

\* C19: validateResponsePermissions changes nothing for nil permissions or
\* a nil response; otherwise it leaves publish non-nil and publish.allow
\* non-nil (empty when it was absent, as it was when set), deny and
\* subscribe as they were, max_msgs and expires at their defaults when they
\* were zero and as they were otherwise; applied again it changes nothing;
\* and it is the function the table build applies to an entry's value.
C19_ValidateResponsePermissions ==
    [][mem'.last = "validate"
       => LET p == PermissionsAt(mem.m, mem.src)
              q == PermissionsAt(mem'.m, mem'.src)
          IN  /\ mem.last = "validate" => mem'.m = mem.m
              /\ q = validateResponsePermissions(p)
              /\ p = Nil => q = Nil /\ mem'.m = mem.m
              /\ p # Nil /\ Val(p).Response = Nil => q = p /\ mem'.m = mem.m
              /\ p # Nil /\ Val(p).Response # Nil
                 => /\ q # Nil /\ Val(q).Publish # Nil
                    /\ Val(Val(q).Publish).Allow =
                         IF Val(p).Publish = Nil THEN Some(<< >>)
                         ELSE IF Val(Val(p).Publish).Allow = Nil THEN Some(<< >>)
                         ELSE Val(Val(p).Publish).Allow
                    /\ Val(Val(q).Publish).Deny =
                         IF Val(p).Publish = Nil THEN Nil ELSE Val(Val(p).Publish).Deny
                    /\ Val(q).Subscribe = Val(p).Subscribe
                    /\ Val(Val(q).Response).MaxMsgs =
                         IF Val(Val(p).Response).MaxMsgs = 0
                         THEN DEFAULT_ALLOW_RESPONSE_MAX_MSGS
                         ELSE Val(Val(p).Response).MaxMsgs
                    /\ Val(Val(q).Response).Expires =
                         IF Val(Val(p).Response).Expires = 0
                         THEN DEFAULT_ALLOW_RESPONSE_EXPIRATION
                         ELSE Val(Val(p).Response).Expires]_vars

\* permissions that had a response and no publish, validated: an empty
\* allow list, the default max_msgs and the expiry that was set
C19_DefaultsFilledIn ==
    /\ mem.last = "validate" /\ ~mem.cloned
    /\ PermissionsAt(mem.m, mem.src) =
         Some([Publish |-> Some([Allow |-> Some(<< >>), Deny |-> Nil]),
               Subscribe |-> Nil,
               Response |-> Some([MaxMsgs |-> DEFAULT_ALLOW_RESPONSE_MAX_MSGS,
                                  Expires |-> 60])])

-----------------------------------------------------------------------------
(* The generated-account path under concurrency.                           *)

\* the connection reached the generated-account path (line 549)
OnGeneratedPath(c) == "accounts.Load" \in conn[c].calls

\* the accounts registered under the CONNECT nkey of the connection
NamedByNkey(c) == accountsLoad(accounts, conn[c].opts.Nkey)

\* C21: whatever the interleaving of the connections that reach the
\* generated-account path with the same nkey, the registry never holds two
\* accounts named by that nkey and holds exactly one as soon as one of the
\* connections has called registerAccount; the NkeyUser such a connection
\* builds, and the one it is registered with when it is accepted, carries the
\* nkey and the single registered account, also when the connection found the
\* name registered by another and had built an account of its own.
C21_GeneratedAccountRace ==
    \A c \in Conns :
        OnGeneratedPath(c) =>
            /\ Cardinality(NamedByNkey(c)) <= 1
            /\ "registerAccount" \in conn[c].calls => Cardinality(NamedByNkey(c)) = 1
            /\ conn[c].nkey # Nil =>
                 /\ Val(conn[c].nkey).Nkey = conn[c].opts.Nkey
                 /\ Val(conn[c].nkey).Account = NamedByNkey(c)
            /\ Accepted(c) =>
                 /\ Cardinality(NamedByNkey(c)) = 1
                 /\ conn[c].regNkey # Nil
                 /\ conn[c].regNkey = conn[c].nkey
                 /\ conn[c].regUser = Nil

\* two connections with the same nkey both missed accounts.Load, both called
\* registerAccount, and both are accepted with the account the other built
\* first
C21_LoserAdoptsWinnerAccount ==
    \E c, d \in Conns :
        /\ c # d
        /\ conn[c].opts.Nkey = conn[d].opts.Nkey
        /\ Accepted(c) /\ Accepted(d)
        /\ "registerAccount" \in conn[c].calls
        /\ "registerAccount" \in conn[d].calls
        /\ "updateAccountWithClaimJWT" \in conn[c].calls
        /\ Val(conn[c].regNkey).Account = Val(conn[d].regNkey).Account
        /\ \A a \in Val(conn[c].regNkey).Account : a.origin = d

-----------------------------------------------------------------------------
(* The server mutex over one execution of                                  *)
(* processClientOrLeafAuthentication.                                      *)

\* what s.mu.Lock() and s.mu.Unlock() did so far in the execution of c
MutexBalanced(c) ==
    /\ conn[c].nLock \in {0, 1}
    /\ conn[c].nUnlock <= conn[c].nLock
    /\ mu = c <=> conn[c].nLock = 1 /\ conn[c].nUnlock = 0
    /\ InLadder(c) => conn[c].nLock = 1
    /\ Done(c) /\ InLadder(c) => conn[c].nUnlock = 1
    /\ Done(c) <=> conn[c].verdict \in {"ACCEPTED", "DENIED"}
    /\ ~Done(c) => conn[c].verdict = ""

\* C22: every execution of processClientOrLeafAuthentication locks s.mu
\* once and unlocks it once: a connection holds the mutex exactly between its
\* one Lock and its one Unlock, and every return, the early denials taken
\* while locked and the auth-not-required accept included, comes after the
\* Unlock. A check that ended keeps its verdict and takes no further step.
\* With connections running concurrently, a held mutex is eventually free
\* and every check that started eventually ends in ACCEPTED or DENIED.
C22_MutexOncePerExecution ==
    /\ [](\A c \in Conns : MutexBalanced(c))
    /\ [][\A c \in Conns : Done(c) => conn'[c] = conn[c]]_vars
    /\ \A c \in Conns : (mu = c) ~> (mu = NoHolder)
    /\ \A c \in Conns : (conn[c].pc = "lock") ~> Done(c)

\* a connection was denied on the early return for an undecodable JWT, and
\* the other connection holds the mutex after it
C22_EarlyDenyReleasedMutex ==
    \E c, d \in Conns :
        /\ c # d
        /\ Denied(c)
        /\ conn[c].calls = {"getAuthOpts", "DecodeUserClaims"}
        /\ conn[c].nLock = 1 /\ conn[c].nUnlock = 1
        /\ mu = d

-----------------------------------------------------------------------------
(* Admission of clients without credentials.                               *)

\* the CONNECT of the connection carries no credentials at all
NoCredentials(c) ==
    /\ conn[c].opts.Username = "" /\ conn[c].opts.Password = ""
    /\ conn[c].opts.Token = "" /\ ~conn[c].opts.JWT.present
    /\ conn[c].opts.Nkey = "" /\ conn[c].opts.Sig = EmptySig

\* getAuthOpts returns true for the connection
AuthIsRequired(c) == getAuthOpts(conn[c].ws, opts, Srv).required

\* no_auth_user names a user of the effective users table
NoAuthUserNamesUser(c) ==
    /\ conn[c].auth.noAuthUser # ""
    /\ conn[c].auth.users # Nil
    /\ conn[c].auth.noAuthUser \in DOMAIN Val(conn[c].auth.users)

\* C23: when auth is required for the connection, no custom client
\* authenticator is configured, tls_map is not set and no_auth_user does not
\* name a user of the effective users table, a CLIENT connection whose
\* CONNECT carries no credentials at all is denied.
C23_NoCredentialsDenied ==
    \A c \in Conns :
        /\ Done(c) /\ conn[c].kind = CLIENT
        /\ AuthIsRequired(c) /\ opts.CustomClientAuthentication = Nil
        /\ NoCredentials(c)
        /\ ~conn[c].auth.tlsMap /\ ~NoAuthUserNamesUser(c)
        => Denied(c)

====
